---- MODULE Spec2Model ----
(***************************************************************************)
(* Edit-region detection engine of snapshot-ai (python-server/services):   *)
(* image_compare.py (Delta-E pixel and block strategies) and               *)
(* image_compare_lpips.py (perceptual pipeline).                            *)
(*                                                                         *)
(* Numbers: colour differences are kept in hundredths of a Delta-E unit    *)
(* (12.0 is 1200), rationals as numerator/denominator pairs, so that every *)
(* comparison and rounding of the code is computed exactly.                *)
(***************************************************************************)
EXTENDS Integers, Sequences, FiniteSets, TLC

(***************************************************************************)
(* Bounds of the model.                                                    *)
(***************************************************************************)
\* an enumerated image has at most MaxPixels pixels ...
MaxPixels == 6
\* ... and neither side longer than MaxSide
MaxSide == 3
\* an edited picture of the perceptual pipeline differs from the original in at
\* most MaxEdits tiles
MaxEdits == 2
\* one process makes at most MaxCalls engine calls in a row
MaxCalls == 3
\* at most MaxThreads threads are inside compute_lpips_heatmap at once
MaxThreads == 3
\* a request asks for at most MaxIterations attempts
MaxIterations == 3
\* an interpolated heatmap of at most MaxCells values is sanitized
MaxCells == 2

(***************************************************************************)
(* Small helpers.                                                          *)
(***************************************************************************)
Min2(a, b) == IF a <= b THEN a ELSE b
Max2(a, b) == IF a >= b THEN a ELSE b
SetMin(S) == CHOOSE m \in S : \A n \in S : m <= n
SetMax(S) == CHOOSE m \in S : \A n \in S : m >= n
\* math.ceil(a / b) for a >= 0, b > 0
CeilDiv(a, b) == (a + b - 1) \div b

RECURSIVE SumOver(_, _)
SumOver(S, f) ==
    IF S = {} THEN 0
    ELSE LET e == CHOOSE e \in S : TRUE IN f[e] + SumOver(S \ {e}, f)

RECURSIVE SeqSum(_)
SeqSum(s) == IF s = <<>> THEN 0 ELSE Head(s) + SeqSum(Tail(s))

\* Python's round() of the rational n/d (d > 0, n >= 0): to nearest, ties to even
RoundHalfEven(n, d) ==
    LET q == n \div d
        r == n % d
    IN  IF 2 * r < d THEN q
        ELSE IF 2 * r > d THEN q + 1
        ELSE IF q % 2 = 0 THEN q ELSE q + 1

(***************************************************************************)
(* Colour science.  Pixels take their colour from a three-colour palette;  *)
(* DeltaE is compute_delta_e on two pixels of these colours, evaluated     *)
(* with the code's formulas (sRGB -> linear -> XYZ/D65 -> Lab, Euclidean   *)
(* distance) and kept in hundredths:                                       *)
(*   white (255,255,255), blue (0,0,255), yellow (255,255,0).              *)
(***************************************************************************)
Palette == {"white", "blue", "yellow"}

compute_delta_e(c1, c2) ==
    IF c1 = c2 THEN 0
    ELSE IF {c1, c2} = {"white", "yellow"} THEN 9696
    ELSE IF {c1, c2} = {"white", "blue"} THEN 14996
    ELSE 23516

(***************************************************************************)
(* Arrays.  An image is [shape, px, data]: shape is the numpy shape tuple  *)
(* (H, W, C); the picture is made of uniform px x px squares and data maps *)
(* the row-major index y * (W / px) + x of a square to its colour.  The    *)
(* images of the Delta-E detector are enumerated pixel by pixel (px = 1);  *)
(* the perceptual pipeline needs sides of 64 and more, and its images are  *)
(* made of 32 x 32 tiles.                                                  *)
(***************************************************************************)
ImgH(img) == img.shape[1]
ImgW(img) == img.shape[2]
GridH(img) == ImgH(img) \div img.px
GridW(img) == ImgW(img) \div img.px
Idx(x, y, width) == y * width + x

Dims == {d \in (1..MaxSide) \X (1..MaxSide) : d[1] * d[2] <= MaxPixels}

UniformImage(h, w, ch, c) ==
    [shape |-> <<h, w, ch>>, px |-> 1, data |-> [i \in 0..(h * w - 1) |-> c]]
ImagesOf(h, w, ch) ==
    {[shape |-> <<h, w, ch>>, px |-> 1, data |-> d] : d \in [0..(h * w - 1) -> Palette]}

(***************************************************************************)
(* EditDetectionOptions.  color_threshold in hundredths, min_block_density *)
(* in percent.                                                             *)
(***************************************************************************)
DefaultOptions ==
    [color_threshold |-> 1200, min_region_size |-> 10, use_block_comparison |-> TRUE,
     block_size |-> 8, min_block_density |-> 25, min_block_count |-> 2]

PixelOptions ==
    {[DefaultOptions EXCEPT !.use_block_comparison = FALSE,
                            !.color_threshold = t, !.min_region_size = m] :
        t \in {1200, 10000}, m \in {1, 2}}

BlockOptions ==
    {[DefaultOptions EXCEPT !.block_size = b, !.min_block_density = d, !.min_block_count = c] :
        b \in {1, 2}, d \in {0, 25, 100}, c \in {1, 2}}

(***************************************************************************)
(* _compute_significance(area, avg_color_diff, pixel_count).               *)
(* avg_color_diff is the rational avg.num / avg.den in hundredths.         *)
(*   significance = (min(area/10000, 1) * 0.4 + avg/100 * 0.4              *)
(*                   + pixel_count/area * 0.2) * 100                       *)
(* written over the common denominator 250 * avg.den * area, then          *)
(* round(min(significance, 100)).                                          *)
(***************************************************************************)
\* mutant: min(significance, 100) left out
NoClamp(num, den) == <<num, den>>

ClampTop(num, den) == IF num > 100 * den THEN <<100, 1>> ELSE <<num, den>>

compute_significance(area, avg, pixel_count) ==
    LET a == IF area > 0 THEN area ELSE 1
        area_normalized == Min2(area, 10000)
        density_num == IF area > 0 THEN pixel_count ELSE 0
        num == area_normalized * avg.den * a + avg.num * a + 5000 * density_num * avg.den
        den == 250 * avg.den * a
        clamped == ClampTop(num, den)
    IN  RoundHalfEven(clamped[1], clamped[2])

(***************************************************************************)
(* Flood fill (_flood_fill_pixels and _flood_fill_blocks are the same      *)
(* loop): an explicit stack, 4-connectivity.  FloodStep is one iteration   *)
(* of the while loop on s = [stack, visited, cells].                       *)
(***************************************************************************)
\* mutants: diagonal steps too; no step upwards
Neighbors8(x, y) ==
    <<<<x + 1, y>>, <<x - 1, y>>, <<x, y + 1>>, <<x, y - 1>>,
      <<x + 1, y + 1>>, <<x - 1, y - 1>>, <<x + 1, y - 1>>, <<x - 1, y + 1>>>>
NeighborsNoUp(x, y) == <<<<x + 1, y>>, <<x - 1, y>>, <<x, y + 1>>>>

Neighbors(x, y) == <<<<x + 1, y>>, <<x - 1, y>>, <<x, y + 1>>, <<x, y - 1>>>>

\* mutant: visited[idx] = 1 left out
FloodStepNoMark(changed_mask, width, height, s) ==
    LET top == s.stack[Len(s.stack)]
        rest == SubSeq(s.stack, 1, Len(s.stack) - 1)
        x == top[1]
        y == top[2]
    IN  IF x < 0 \/ x >= width \/ y < 0 \/ y >= height
        THEN [s EXCEPT !.stack = rest]
        ELSE IF changed_mask[Idx(x, y, width)] # 1 \/ s.visited[Idx(x, y, width)] = 1
        THEN [s EXCEPT !.stack = rest]
        ELSE [stack |-> rest \o Neighbors(x, y),
              visited |-> s.visited,
              cells |-> Append(s.cells, top)]

FloodStep(changed_mask, width, height, s) ==
    LET top == s.stack[Len(s.stack)]
        rest == SubSeq(s.stack, 1, Len(s.stack) - 1)
        x == top[1]
        y == top[2]
    IN  IF x < 0 \/ x >= width \/ y < 0 \/ y >= height
        THEN [s EXCEPT !.stack = rest]
        ELSE IF changed_mask[Idx(x, y, width)] # 1 \/ s.visited[Idx(x, y, width)] = 1
        THEN [s EXCEPT !.stack = rest]
        ELSE [stack |-> rest \o Neighbors(x, y),
              visited |-> [s.visited EXCEPT ![Idx(x, y, width)] = 1],
              cells |-> Append(s.cells, top)]

RECURSIVE FloodLoop(_, _, _, _)
FloodLoop(changed_mask, width, height, s) ==
    IF s.stack = <<>> THEN s
    ELSE FloodLoop(changed_mask, width, height, FloodStep(changed_mask, width, height, s))

flood_fill_pixels(changed_mask, visited, width, height, start_x, start_y) ==
    FloodLoop(changed_mask, width, height,
              [stack |-> <<<<start_x, start_y>>>>, visited |-> visited, cells |-> <<>>])

(***************************************************************************)
(* regions.sort(key=lambda r: r.significance, reverse=True): Python's      *)
(* sort is stable, also with reverse=True, so a region goes behind every   *)
(* earlier region of greater or equal significance.                        *)
(***************************************************************************)
\* mutants: ascending order; a later region overtakes its equals
GoesBeforeAscending(r, q) == r.significance < q.significance
GoesBeforeOrEqual(r, q) == r.significance >= q.significance

GoesBefore(r, q) == r.significance > q.significance

RECURSIVE InsertRegion(_, _)
InsertRegion(sorted, r) ==
    IF sorted = <<>> THEN <<r>>
    ELSE IF GoesBefore(r, Head(sorted)) THEN <<r>> \o sorted
    ELSE <<Head(sorted)>> \o InsertRegion(Tail(sorted), r)

RECURSIVE SortBySignificance(_)
SortBySignificance(regions) ==
    IF regions = <<>> THEN <<>>
    ELSE InsertRegion(SortBySignificance(SubSeq(regions, 1, Len(regions) - 1)),
                      regions[Len(regions)])

(***************************************************************************)
(* _compute_region_from_pixels.  `members` (the component's cells) is kept *)
(* with the region for the properties; EditRegion has no such field.       *)
(***************************************************************************)
SeqToSet(s) == {s[i] : i \in 1..Len(s)}

\* width = max_x - min_x + 1, height = max_y - min_y + 1 (lines 466-467)
\* mutant: the last row/column is not counted
ExtentOffByOne(lo, hi) == hi - lo

Extent(lo, hi) == hi - lo + 1

compute_region_from_pixels(pixels, delta_e, img_width) ==
    LET xs == {pixels[i][1] : i \in 1..Len(pixels)}
        ys == {pixels[i][2] : i \in 1..Len(pixels)}
        min_x == SetMin(xs)
        max_x == SetMax(xs)
        min_y == SetMin(ys)
        max_y == SetMax(ys)
        diffs == [i \in 1..Len(pixels) |-> delta_e[Idx(pixels[i][1], pixels[i][2], img_width)]]
        total_color_diff == SeqSum(diffs)
        max_color_diff == SetMax({0} \cup {diffs[i] : i \in 1..Len(pixels)})
        width == Extent(min_x, max_x)
        height == Extent(min_y, max_y)
        avg == [num |-> total_color_diff, den |-> Len(pixels)]
        area == width * height
    IN  [x |-> min_x, y |-> min_y, width |-> width, height |-> height,
         center_x |-> RoundHalfEven(min_x + max_x, 2),
         center_y |-> RoundHalfEven(min_y + max_y, 2),
         pixel_count |-> Len(pixels),
         avg_color_diff |-> RoundHalfEven(avg.num, 10 * avg.den),
         max_color_diff |-> RoundHalfEven(max_color_diff, 10),
         significance |-> compute_significance(area, avg, Len(pixels)),
         members |-> SeqToSet(pixels)]

(***************************************************************************)
(* Block strategy helpers (_detect_block_based, lines 257-310).            *)
(***************************************************************************)
flood_fill_blocks(changed_mask, visited, blocks_x, blocks_y, start_bx, start_by) ==
    FloodLoop(changed_mask, blocks_x, blocks_y,
              [stack |-> <<<<start_bx, start_by>>>>, visited |-> visited, cells |-> <<>>])

\* the pixels (row-major indices) of block (bx, by): rows start_y..end_y-1,
\* columns start_x..end_x-1, clipped at the image edge (lines 275-282)
BlockPixels(bx, by, block_size, width, height) ==
    LET start_x == bx * block_size
        start_y == by * block_size
        end_x == Min2(start_x + block_size, width)
        end_y == Min2(start_y + block_size, height)
    IN  {Idx(x, y, width) : x \in start_x..(end_x - 1), y \in start_y..(end_y - 1)}

\* mutant: the density must exceed min_block_density
BlockIsChangedStrict(changed_in_block, block_pixel_count, min_block_density) ==
    100 * changed_in_block > min_block_density * block_pixel_count

\* is_changed = density >= min_block_density, density = changed / pixels of
\* the block, min_block_density in percent (lines 297-298)
BlockIsChanged(changed_in_block, block_pixel_count, min_block_density) ==
    100 * changed_in_block >= min_block_density * block_pixel_count

\* lines 270-310: the stats record of one block
BlockStat(bx, by, delta, color_threshold, block_size, min_block_density, width, height) ==
    LET px == BlockPixels(bx, by, block_size, width, height)
        changed == {i \in px : delta[i] > color_threshold}
        changed_in_block == Cardinality(changed)
    IN  [changed |-> BlockIsChanged(changed_in_block, Cardinality(px), min_block_density),
         changed_pixel_count |-> changed_in_block,
         total_color_diff |-> SumOver(changed, delta),
         max_color_diff |-> SetMax({0} \cup {delta[i] : i \in changed})]

(***************************************************************************)
(* _compute_region_from_blocks, lines 357-398.                             *)
(***************************************************************************)
\* mutant: the far edge of the last block, not clipped to the image
Unclipped(edge, limit) == edge

\* lines 376-377: min((max_bx + 1) * block_size, image_width)
ClipToEdge(edge, limit) == Min2(edge, limit)

compute_region_from_blocks(blocks, block_size, block_stats, blocks_x, image_width, image_height) ==
    LET bxs == {blocks[i][1] : i \in 1..Len(blocks)}
        bys == {blocks[i][2] : i \in 1..Len(blocks)}
        min_bx == SetMin(bxs)
        max_bx == SetMax(bxs)
        min_by == SetMin(bys)
        max_by == SetMax(bys)
        stats == [i \in 1..Len(blocks) |-> block_stats[Idx(blocks[i][1], blocks[i][2], blocks_x)]]
        total_color_diff == SeqSum([i \in 1..Len(blocks) |-> stats[i].total_color_diff])
        total_changed_pixels == SeqSum([i \in 1..Len(blocks) |-> stats[i].changed_pixel_count])
        max_color_diff == SetMax({0} \cup {stats[i].max_color_diff : i \in 1..Len(blocks)})
        x == min_bx * block_size
        y == min_by * block_size
        right_edge == ClipToEdge((max_bx + 1) * block_size, image_width)
        bottom_edge == ClipToEdge((max_by + 1) * block_size, image_height)
        width == right_edge - x
        height == bottom_edge - y
        avg == IF total_changed_pixels > 0
               THEN [num |-> total_color_diff, den |-> total_changed_pixels]
               ELSE [num |-> 0, den |-> 1]
        area == width * height
    IN  [x |-> x, y |-> y, width |-> width, height |-> height,
         center_x |-> RoundHalfEven(2 * x + width, 2),
         center_y |-> RoundHalfEven(2 * y + height, 2),
         pixel_count |-> total_changed_pixels,
         avg_color_diff |-> RoundHalfEven(avg.num, 10 * avg.den),
         max_color_diff |-> RoundHalfEven(max_color_diff, 10),
         significance |-> compute_significance(area, avg, total_changed_pixels),
         members |-> SeqToSet(blocks)]

(***************************************************************************)
(* The prelude shared by detect_edit_regions and                           *)
(* detect_edit_regions_lpips: resize the edited image when shape[:2]       *)
(* differ, then validate the ORIGINAL's shape, then keep the first three   *)
(* channels of both.                                                       *)
(***************************************************************************)
NoError == "none"
ValidationError == "ValueError: Expected RGB image with shape (H, W, 3)"

Prefix2(shape) == SubSeq(shape, 1, Min2(2, Len(shape)))

\* PIL.Image.fromarray takes a uint8 array of shape (H, W) or (H, W, 2|3|4)
FromArrayAccepts(shape) ==
    Len(shape) = 2 \/ (Len(shape) = 3 /\ shape[3] \in {2, 3, 4})

\* Image.resize((w, h)) then np.array: the edited picture on an h x w grid with
\* its own channels.  The picture is sampled at the nearest source pixel (the
\* palette has no blends, which LANCZOS would produce).
Resize(img, h, w) ==
    LET gh == h \div img.px
        gw == w \div img.px
    IN  [shape |-> <<h, w>> \o SubSeq(img.shape, 3, Len(img.shape)),
         px |-> img.px,
         data |-> [i \in 0..(gh * gw - 1) |->
                     img.data[Idx(((i % gw) * GridW(img)) \div gw,
                                  ((i \div gw) * GridH(img)) \div gh, GridW(img))]]]

\* lines 513-522 / 205-213: [error, edited]
ResizeEdited(orig, edit) ==
    IF Prefix2(orig.shape) = Prefix2(edit.shape) THEN [error |-> NoError, edited |-> edit]
    ELSE IF ~FromArrayAccepts(edit.shape) THEN [error |-> "TypeError", edited |-> edit]
    ELSE IF Len(orig.shape) < 2 THEN [error |-> "IndexError", edited |-> edit]
    ELSE [error |-> NoError, edited |-> Resize(edit, orig.shape[1], orig.shape[2])]

\* lines 525-526 / 216-217: the check that raises ValueError
ShapeRejected(orig) == Len(orig.shape) # 3 \/ orig.shape[3] < 3

\* what a caller means by a well-formed colour image
WellFormed(img) == Len(img.shape) = 3 /\ img.shape[3] \in {3, 4}

(***************************************************************************)
(* compute_delta_e(original[..., :3], edited[..., :3]) on whole arrays:    *)
(* [error, shape, data].  The edited array was never validated, so numpy   *)
(* decides: with fewer than 3 channels the channel index raises            *)
(* IndexError; a 2-D edited array is sliced to (H, min(W,3)), read as H    *)
(* colour triples and broadcast against (H, W, 3), which works only when   *)
(* W >= 3 and (H = W or H = 1) and otherwise raises numpy's broadcast      *)
(* ValueError.                                                             *)
(***************************************************************************)
DeltaField(orig, edit) ==
    LET h == orig.shape[1]
        w == orig.shape[2]
        cells == 0..(h * w - 1)
    IN  IF Len(edit.shape) = 3
        THEN IF edit.shape[3] < 3
             THEN [error |-> "IndexError", shape |-> <<>>, data |-> <<>>]
             ELSE [error |-> NoError, shape |-> <<h, w>>,
                   data |-> [i \in cells |-> compute_delta_e(orig.data[i], edit.data[i])]]
        ELSE IF edit.shape[2] < 3
             THEN [error |-> "IndexError", shape |-> <<>>, data |-> <<>>]
        ELSE IF h = 1 \/ h = w
             THEN [error |-> NoError, shape |-> <<h, w>>,
                   data |-> [i \in cells |->
                               compute_delta_e(orig.data[i],
                                   edit.data[Idx(0, IF h = 1 THEN 0 ELSE i % w, w)])]]
        ELSE [error |-> "ValueError: operands could not be broadcast together",
              shape |-> <<>>, data |-> <<>>]

\* changed = delta_e > color_threshold, flattened (lines 263, 414)
ChangedMask(delta, color_threshold) ==
    [i \in DOMAIN delta |-> IF delta[i] > color_threshold THEN 1 ELSE 0]

\* mutant: every pixel of the mask is counted
CountAll(mask) == Cardinality(DOMAIN mask)

\* int(np.sum(changed_mask))
CountOnes(mask) == Cardinality({i \in DOMAIN mask : mask[i] = 1})

\* the row-major scan (for y: for x:) stops at the first changed, unvisited cell
Unvisited(mask, visited) == {i \in DOMAIN mask : mask[i] = 1 /\ visited[i] = 0}
NextStart(mask, visited) == SetMin(Unvisited(mask, visited))

(***************************************************************************)
(* Perceptual pipeline (image_compare_lpips.py).  LPIPS scores, heatmap    *)
(* values and the threshold are kept in hundredths (0.1 is 10).            *)
(***************************************************************************)
MIN_PATCH_SIZE == 64
MAX_ITERATIONS == 3

\* the perceptual images are made of tiles of half the minimum patch, the
\* heatmap of cells of a quarter of it (a cell never straddles two tiles, nor
\* the border between the nearest-sample areas of two patch centres)
TilePx == MIN_PATCH_SIZE \div 2
HeatCell == MIN_PATCH_SIZE \div 4

DefaultLpipsOptions ==
    [threshold |-> 10, min_area |-> 100, patch_size |-> 64, stride |-> 32,
     morphology_kernel_size |-> 5]

LpipsOptions ==
    {[DefaultLpipsOptions EXCEPT !.patch_size = ps[1], !.stride = ps[2]] :
        ps \in {<<64, 32>>, <<64, 64>>, <<32, 16>>, <<128, 64>>}}
    \cup {[DefaultLpipsOptions EXCEPT !.threshold = 0, !.min_area = 0]}

\* mutant: the stride is used as passed
StrideAsGiven(patch_size, stride) == stride

\* lines 107-111: the floor on patch_size, and what it does to stride
EffectivePatchSize(patch_size) ==
    IF patch_size < MIN_PATCH_SIZE THEN MIN_PATCH_SIZE ELSE patch_size
EffectiveStride(patch_size, stride) ==
    IF patch_size < MIN_PATCH_SIZE THEN Max2(stride, MIN_PATCH_SIZE \div 2) ELSE stride

\* range(0, stop, step) as a sequence
PyRange(stop, step) ==
    IF stop <= 0 THEN <<>> ELSE [k \in 1..CeilDiv(stop, step) |-> (k - 1) * step]

\* lines 135-136: the top-left corners (x, y) of the sampled windows, in loop order
SampleOrigins(H, W, patch_size, stride) ==
    LET ys == PyRange(H - patch_size + 1, stride)
        xs == PyRange(W - patch_size + 1, stride)
    IN  [k \in 1..(Len(ys) * Len(xs)) |->
            <<xs[((k - 1) % Len(xs)) + 1], ys[((k - 1) \div Len(xs)) + 1]>>] \o <<>>

(***************************************************************************)
(* loss_fn(p1, p2).item(): the scoring model is opaque.  It is modelled as *)
(* a family of deterministic functions of the two patches, one per         *)
(* `gain`: 0 on identical patches, otherwise gain times the share of the   *)
(* patch that differs (a tile that turned blue counts twice a tile that    *)
(* turned yellow).                                                         *)
(***************************************************************************)
TileDiff(c1, c2) ==
    IF c1 = c2 THEN 0 ELSE IF {c1, c2} = {"white", "yellow"} THEN 1 ELSE 2

PatchTiles(img, x, y, patch_size) ==
    {Idx(tx, ty, GridW(img)) :
        tx \in (x \div img.px)..(((x + patch_size) \div img.px) - 1),
        ty \in (y \div img.px)..(((y + patch_size) \div img.px) - 1)}

Score(gain, orig, edit, x, y, patch_size) ==
    LET tiles == PatchTiles(orig, x, y, patch_size)
    IN  (gain * SumOver(tiles, [t \in tiles |-> TileDiff(orig.data[t], edit.data[t])]))
            \div (2 * Cardinality(tiles))

Gains == {8, 64, 160}

(***************************************************************************)
(* Interpolation (lines 151-173).  The heatmap is kept per cell.           *)
(***************************************************************************)
\* mutant: cubic from three samples on
InterpMethodCubicFrom3(n) ==
    IF n = 0 THEN "zeros" ELSE IF n = 1 THEN "full" ELSE IF n < 3 THEN "nearest" ELSE "cubic"

\* lines 160-168: the method follows from the number of samples alone
InterpMethod(n) ==
    IF n = 0 THEN "zeros" ELSE IF n = 1 THEN "full" ELSE IF n < 4 THEN "nearest" ELSE "cubic"

\* every sample centre on one line: scipy's cubic griddata triangulates the
\* points and raises QhullError on such a set
Collinear(positions) ==
    \/ Cardinality({positions[k][1] : k \in 1..Len(positions)}) <= 1
    \/ Cardinality({positions[k][2] : k \in 1..Len(positions)}) <= 1

\* twice the centre coordinate of heatmap cell i (pixels HeatCell*i .. HeatCell*i + HeatCell - 1)
CellCentre2(i) == 2 * HeatCell * i + HeatCell - 1

Dist2(cell, pos) ==
    (CellCentre2(cell[1]) - 2 * pos[1]) * (CellCentre2(cell[1]) - 2 * pos[1])
        + (CellCentre2(cell[2]) - 2 * pos[2]) * (CellCentre2(cell[2]) - 2 * pos[2])

NearestSample(cell, positions) ==
    CHOOSE k \in 1..Len(positions) :
        \A j \in 1..Len(positions) : Dist2(cell, positions[k]) <= Dist2(cell, positions[j])

\* inside the convex hull of the sample centres (a grid: their bounding rectangle)
InsideHull(cell, positions) ==
    LET xs == {positions[k][1] : k \in 1..Len(positions)}
        ys == {positions[k][2] : k \in 1..Len(positions)}
    IN  /\ HeatCell * cell[1] >= SetMin(xs)
        /\ HeatCell * cell[1] + HeatCell - 1 <= SetMax(xs)
        /\ HeatCell * cell[2] >= SetMin(ys)
        /\ HeatCell * cell[2] + HeatCell - 1 <= SetMax(ys)

\* griddata per cell: "nearest" takes the nearest sample's score everywhere;
\* "cubic" interpolates inside the hull (kept as the nearest sample's score,
\* which the interpolant takes at the sample) and is fill_value = 0 outside
Interpolate(method, positions, scores, gw, cells) ==
    [c \in cells |->
        LET cell == <<c % gw, c \div gw>>
        IN  IF method = "zeros" THEN 0
            ELSE IF method = "full" THEN scores[1]
            ELSE IF method = "nearest" THEN scores[NearestSample(cell, positions)]
            ELSE IF InsideHull(cell, positions) THEN scores[NearestSample(cell, positions)]
            ELSE 0]

(***************************************************************************)
(* compute_lpips_heatmap, lines 103-173:                                   *)
(* [error, loaded, method, positions, scores, shape, data]; `loaded` tells *)
(* whether _get_lpips_model() was called.                                  *)
(***************************************************************************)
compute_lpips_heatmap(orig, edit, patch_size_arg, stride_arg, gain) ==
    LET H == orig.shape[1]
        W == orig.shape[2]
        patch_size == EffectivePatchSize(patch_size_arg)
        stride == EffectiveStride(patch_size_arg, stride_arg)
        gw == W \div HeatCell
        cells == 0..((H \div HeatCell) * gw - 1)
        origins == SampleOrigins(H, W, patch_size, stride)
        n == Len(origins)
        positions == [k \in 1..n |-> <<origins[k][1] + patch_size \div 2,
                                       origins[k][2] + patch_size \div 2>>] \o <<>>
        scores == [k \in 1..n |-> Score(gain, orig, edit, origins[k][1], origins[k][2],
                                         patch_size)] \o <<>>
        method == InterpMethod(n)
        none == [error |-> NoError, loaded |-> FALSE, method |-> "zeros", positions |-> <<>>,
                 scores |-> <<>>, shape |-> <<H, W>>, data |-> [c \in cells |-> 0]]
    IN  IF H < MIN_PATCH_SIZE \/ W < MIN_PATCH_SIZE THEN none
        ELSE IF Len(edit.shape) # 3 \/ (n > 0 /\ edit.shape[3] < 3)
        THEN [none EXCEPT !.error = "RuntimeError", !.loaded = TRUE]
        ELSE IF method = "cubic" /\ Collinear(positions)
        THEN [none EXCEPT !.error = "QhullError", !.loaded = TRUE, !.method = method,
                          !.positions = positions, !.scores = scores]
        ELSE [error |-> NoError, loaded |-> TRUE, method |-> method, positions |-> positions,
              scores |-> scores, shape |-> <<H, W>>,
              data |-> Interpolate(method, positions, scores, gw, cells)]

(***************************************************************************)
(* Region extraction, lines 242-306, per heatmap cell.  The morphological  *)
(* opening and closing (kernel 5) leave a mask made of whole cells as it   *)
(* is, up to the rounding of its corners.  cv2.findContours traces the     *)
(* outer boundary of every 8-connected component; the contour runs through *)
(* the centres of the boundary pixels.                                     *)
(***************************************************************************)
Near(p, q, diagonal) ==
    LET dx == IF p[1] >= q[1] THEN p[1] - q[1] ELSE q[1] - p[1]
        dy == IF p[2] >= q[2] THEN p[2] - q[2] ELSE q[2] - p[2]
    IN  IF diagonal THEN p # q /\ dx <= 1 /\ dy <= 1 ELSE dx + dy = 1

RECURSIVE Grow(_, _, _)
Grow(front, S, diagonal) ==
    LET next == front \cup {q \in S : \E p \in front : Near(p, q, diagonal)}
    IN  IF next = front THEN front ELSE Grow(next, S, diagonal)

\* the components of mask S (cells as (x, y)) in row-major order of their first cell
RECURSIVE Contours(_, _)
Contours(S, gw) ==
    IF S = {} THEN <<>>
    ELSE LET start == CHOOSE c \in S : \A d \in S : Idx(c[1], c[2], gw) <= Idx(d[1], d[2], gw)
             comp == Grow({start}, S, TRUE)
         IN  <<comp>> \o Contours(S \ comp, gw)

\* cv2.drawContours(..., -1): the component and everything its outer contour encloses
FilledContour(comp, gw, gh) ==
    LET all == (0..(gw - 1)) \X (0..(gh - 1))
        background == all \ comp
        border == {c \in background : c[1] = 0 \/ c[2] = 0 \/ c[1] = gw - 1 \/ c[2] = gh - 1}
        outside == Grow(border, background, FALSE)
    IN  all \ outside

ExposedEdges(F) ==
    SumOver(F, [c \in F |->
        Cardinality({d \in {<<1, 0>>, <<-1, 0>>, <<0, 1>>, <<0, -1>>} :
                        <<c[1] + d[1], c[2] + d[2]>> \notin F})])

\* cv2.contourArea: the polygon through the boundary pixels' centres, half a
\* pixel inside the filled shape all around
ContourArea(F) ==
    Cardinality(F) * HeatCell * HeatCell - (ExposedEdges(F) * HeatCell) \div 2 + 1

\* lines 284-293: significance = mean(heatmap inside the filled contour) * 100,
\* the rational num / den; nothing clamps it
RegionSignificance(F, heat, gw) ==
    [num |-> SumOver(F, [c \in F |-> heat[Idx(c[1], c[2], gw)]]), den |-> Cardinality(F)]

\* lines 263-306: the EditRegionPolygon of one contour (the simplified polygon
\* itself is not modelled)
PolygonRegion(comp, heat, gw, gh) ==
    LET F == FilledContour(comp, gw, gh)
        xs == {c[1] : c \in comp}
        ys == {c[2] : c \in comp}
        x == HeatCell * SetMin(xs)
        y == HeatCell * SetMin(ys)
        w == HeatCell * (SetMax(xs) - SetMin(xs) + 1)
        h == HeatCell * (SetMax(ys) - SetMin(ys) + 1)
        n == Cardinality(F)
    IN  [bounding_box |-> <<x, y, w, h>>,
         center |-> <<SumOver(F, [c \in F |-> CellCentre2(c[1])]) \div (2 * n),
                      SumOver(F, [c \in F |-> CellCentre2(c[2])]) \div (2 * n)>>,
         area |-> ContourArea(F),
         significance |-> RegionSignificance(F, heat, gw),
         members |-> F]

\* mutant: the threshold itself counts as changed
AtOrAboveThreshold(v, threshold) == v >= threshold

\* line 243: heatmap > options.threshold
AboveThreshold(v, threshold) == v > threshold

\* lines 242-306: threshold, contours, the min_area filter
ExtractRegions(heat, shape, threshold, min_area) ==
    LET gw == shape[2] \div HeatCell
        gh == shape[1] \div HeatCell
        binary == {<<c % gw, c \div gw>> : c \in {d \in DOMAIN heat : AboveThreshold(heat[d], threshold)}}
        contours == Contours(binary, gw)
        regs == [k \in 1..Len(contours) |-> PolygonRegion(contours[k], heat, gw, gh)]
    IN  SelectSeq(regs, LAMBDA r : ~(r.area < min_area))

\* line 309: regions.sort(key=lambda r: r.significance, reverse=True)
GoesBeforePolygon(r, q) ==
    r.significance.num * q.significance.den > q.significance.num * r.significance.den

RECURSIVE InsertPolygon(_, _)
InsertPolygon(sorted, r) ==
    IF sorted = <<>> THEN <<r>>
    ELSE IF GoesBeforePolygon(r, Head(sorted)) THEN <<r>> \o sorted
    ELSE <<Head(sorted)>> \o InsertPolygon(Tail(sorted), r)

RECURSIVE SortPolygons(_)
SortPolygons(regions) ==
    IF regions = <<>> THEN <<>>
    ELSE InsertPolygon(SortPolygons(SubSeq(regions, 1, Len(regions) - 1)),
                       regions[Len(regions)])

(***************************************************************************)
(* format_edit_regions_for_prompt (image_compare.py 551-573 and             *)
(* image_compare_lpips.py 329-356).  The returned string is kept as the    *)
(* sequence of its lines (the pieces joined by "\n"); a line is a record   *)
(* of its kind, its fixed words and the values printed into it.  A value   *)
(* printed with the format .1f is kept in tenths.                          *)
(***************************************************************************)
\* f"{q:.1f}" of the rational q[1] / q[2], in tenths
Fixed1(q) == RoundHalfEven(10 * q[1], q[2])

FixedLine(words) == [kind |-> "fixed", words |-> words]

\* mutant: the perceptual formatter answers an empty result with its header
LpipsSentinelAsHeader ==
    "DETECTED EDIT LOCATIONS (by perceptual difference, sorted by significance):"

DetSentinel == "DETECTED EDIT LOCATIONS: No significant changes detected between images."
LpipsSentinel == "DETECTED EDIT LOCATIONS: No significant changes detected between images."
DetHeader == "DETECTED EDIT LOCATIONS (sorted by significance):"
LpipsHeader == "DETECTED EDIT LOCATIONS (by perceptual difference, sorted by significance):"

\* lines 557-567: "  {i}. Region from (x, y) to (x + w - 1, y + h - 1), center: ...,
\* size: WxH, N pixels changed, intensity: avg=.., max=.., significance: S/100"
RegionLine(i, r) ==
    [kind |-> "region", number |-> i,
     top_left |-> <<r.x, r.y>>,
     bottom_right |-> <<r.x + r.width - 1, r.y + r.height - 1>>,
     center |-> <<r.center_x, r.center_y>>,
     size |-> <<r.width, r.height>>,
     pixel_count |-> r.pixel_count,
     intensity |-> <<r.avg_color_diff, r.max_color_diff>>,
     significance |-> r.significance]

\* mutant: enumerate(result.regions) without the start value 1
NumberFromZero(i) == i - 1

\* enumerate(result.regions, 1): the number printed for the i-th region
RegionNumber(i) == i

format_edit_regions_for_prompt(res) ==
    IF res.regions = <<>> THEN <<FixedLine(DetSentinel)>>
    ELSE <<FixedLine(DetHeader)>>
         \o [i \in 1..Len(res.regions) |-> RegionLine(RegionNumber(i), res.regions[i])]
         \o <<FixedLine(""),
              [kind |-> "total", total |-> res.total_changed_pixels,
               percent |-> Fixed1(res.percent_changed)],
              [kind |-> "dimensions", width |-> res.image_width, height |-> res.image_height]>>

\* lines 344-350: "  {i}. Region centered at (cx, cy), bounding box from (x, y) to
\* (x + w - 1, y + h - 1), size: WxH, area: Apx, significance: S/100"
PolygonLine(i, r) ==
    [kind |-> "region", number |-> i,
     center |-> r.center,
     top_left |-> <<r.bounding_box[1], r.bounding_box[2]>>,
     bottom_right |-> <<r.bounding_box[1] + r.bounding_box[3] - 1,
                        r.bounding_box[2] + r.bounding_box[4] - 1>>,
     size |-> <<r.bounding_box[3], r.bounding_box[4]>>,
     area |-> r.area,
     significance |-> Fixed1(<<r.significance.num, r.significance.den>>)]

format_edit_regions_for_prompt_lpips(res) ==
    IF res.regions = <<>> THEN <<FixedLine(LpipsSentinel)>>
    ELSE <<FixedLine(LpipsHeader)>>
         \o [i \in 1..Len(res.regions) |-> PolygonLine(RegionNumber(i), res.regions[i])]
         \o <<FixedLine(""),
              [kind |-> "total", total |-> res.total_changed_area,
               percent |-> Fixed1(res.percent_changed)],
              [kind |-> "dimensions", width |-> res.image_width, height |-> res.image_height]>>

(***************************************************************************)
(* State.                                                                  *)
(***************************************************************************)
VARIABLES
    fn,          \* the entry point called
    original,    \* argument: the original image
    edited_in,   \* argument: the edited image as the caller passed it
    edited,      \* the local `edited`: the argument, then the resized array
    options,     \* argument
    pc,          \* position in the call
    delta_e,     \* [shape, data]: the difference field
    block_changed_mask,  \* block strategy: 1 for a changed block
    block_stats, \* block strategy: the stats record of every block
    visited,     \* the visited array of the component scan
    scorer,      \* which scoring model the process has (its gain); only the
                 \* perceptual pipeline ever consults it
    lpips_model, \* the module-level handle _lpips_model: "None" or "loaded"
    heatmap,     \* the result of compute_lpips_heatmap
    regions,     \* the local list `regions`
    result,      \* the returned EditDetectionResult, or NoResult
    text,        \* what format_edit_regions_for_prompt returned for `result`
    error,       \* the exception the call ended in, or NoError
    calls,       \* how many engine calls this process has started
    history,     \* the finished calls: arguments and what the caller got
    thread_pc,   \* per thread: its position in compute_lpips_heatmap / _get_lpips_model
    thread_new,  \* per thread: the LPIPS instance it has constructed, or "None"
    loss_fn,     \* per thread: the handle _get_lpips_model returned to it, or "None"
    constructions,  \* how many times lpips.LPIPS(...) was constructed in the process
    node,            \* the node of the agentic edit graph that runs next
    check_pc,        \* where self_check_node is suspended, "none" outside it
    source_image,    \* GraphState.source_image
    max_iterations,  \* GraphState.max_iterations
    current_iteration,  \* GraphState.current_iteration
    current_result,  \* GraphState.current_result
    satisfied,       \* GraphState.satisfied
    edit_regions_text,  \* the local of self_check_node
    prompt,          \* the evaluation prompt of this self-check, once built
    detector_calls,  \* detector calls made by the self-check that runs or ran last
    detector_thread, \* the thread detect_edit_regions_lpips runs on, "none" when it does not run
    served,          \* where the workflow stood each time the event loop served another request
    flood,           \* one detection call's component scan, flood fill taken one loop iteration at a time
    interp           \* an interpolated heatmap on its way through lines 170-173

vars == <<fn, original, edited_in, edited, options, pc, delta_e, block_changed_mask, block_stats,
          visited, scorer, lpips_model, heatmap, regions, result, text, error, calls, history,
          thread_pc, thread_new, loss_fn, constructions,
          node, check_pc, source_image, max_iterations, current_iteration, current_result,
          satisfied, edit_regions_text, prompt, detector_calls, detector_thread, served,
          flood, interp>>

detVars == <<delta_e, block_changed_mask, block_stats, visited>>
lpipsVars == <<scorer, lpips_model, heatmap>>
callVars == <<calls, history>>
threadVars == <<thread_pc, thread_new, loss_fn, constructions>>
flowVars ==
    <<node, check_pc, source_image, max_iterations, current_iteration, current_result,
      satisfied, edit_regions_text, prompt, detector_calls, detector_thread, served>>
\* what no step inside one engine call touches
others == <<callVars, threadVars, flowVars, flood, interp>>

Threads == 1..MaxThreads

NoResult == [returned |-> FALSE]
NoField == [shape |-> <<>>, data |-> <<>>]
NoHeatmap == [method |-> "none"]
NoText == <<>>

\* current_result: str | None = None
NoImageUrl == [url |-> "None", decodes |-> FALSE, array |-> NoField]
NoPrompt == [built |-> FALSE]

\* GraphState as the workflow is invoked (lines 72-84), nothing running
NewGraphState(src, max) ==
    /\ node = "planning"
    /\ check_pc = "none"
    /\ source_image = src
    /\ max_iterations = max
    /\ current_iteration = 0
    /\ current_result = NoImageUrl
    /\ satisfied = FALSE
    /\ edit_regions_text = NoText
    /\ prompt = NoPrompt
    /\ detector_calls = 0
    /\ detector_thread = "none"
    /\ served = {}

\* no component scan is being followed step by step
NoScan == [state |-> "none"]
\* no heatmap is being followed through the sanitization
NoInterp == [stage |-> "none"]

IdleEngine(f, o, e, opts, gains) ==
    /\ fn = f
    /\ original = o
    /\ edited_in = e
    /\ edited = e
    /\ options = opts
    /\ pc = "start"
    /\ delta_e = NoField
    /\ block_changed_mask = <<>>
    /\ block_stats = <<>>
    /\ visited = <<>>
    /\ scorer \in gains
    /\ lpips_model = "None"
    /\ heatmap = NoHeatmap
    /\ regions = <<>>
    /\ result = NoResult
    /\ text = NoText
    /\ error = NoError
    /\ calls = 1
    /\ history = {}
    /\ thread_pc = [t \in Threads |-> "idle"]
    /\ thread_new = [t \in Threads |-> "None"]
    /\ loss_fn = [t \in Threads |-> "None"]
    /\ constructions = 0

IdleScored(f, o, e, opts, gains) ==
    /\ IdleEngine(f, o, e, opts, gains)
    /\ flood = NoScan
    /\ interp = NoInterp
    /\ NewGraphState([url |-> "data", decodes |-> TRUE, array |-> o], MAX_ITERATIONS)

Idle(f, o, e, opts) ==
    IdleScored(f, o, e, opts,
               IF f = "detect_edit_regions_lpips" THEN Gains ELSE {SetMin(Gains)})

Backgrounds == {"white", "blue"}

\* pixel strategy: a uniform original, every edited picture of the same size
InitPixel ==
    \E d \in Dims : \E bg \in Backgrounds : \E e \in ImagesOf(d[1], d[2], 3) :
        \E opts \in PixelOptions :
            Idle("detect_edit_regions", UniformImage(d[1], d[2], 3, bg), e, opts)

(***************************************************************************)
(* detect_edit_regions, lines 508-548, up to the dispatch.                 *)
(***************************************************************************)
\* mutant: a component of exactly the minimum size is dropped
LargerThan(size, minimum) == size > minimum

\* len(region_pixels) >= min_region_size, len(region_blocks) >= min_block_count
LargeEnough(size, minimum) == size >= minimum

\* mutant: the list of an earlier call is still there (a module-level list, a
\* mutable default argument)
LeftoverList == regions

\* regions: list[EditRegion] = []  (lines 317 and 419)
EmptyList == <<>>

Raise(e, edited_now, model_now) ==
    /\ error' = e
    /\ pc' = "raised"
    /\ edited' = edited_now
    /\ lpips_model' = model_now
    /\ UNCHANGED <<others, fn, edited_in, text, original, options, detVars, scorer, heatmap, regions, result>>

Enter ==
    /\ pc = "start"
    /\ fn = "detect_edit_regions"
    /\ LET rs == ResizeEdited(original, edited)
           df == DeltaField(original, rs.edited)
       IN  IF rs.error # NoError THEN Raise(rs.error, edited, lpips_model)
           ELSE IF ShapeRejected(original) THEN Raise(ValidationError, rs.edited, lpips_model)
           ELSE IF df.error # NoError THEN Raise(df.error, rs.edited, lpips_model)
           ELSE /\ edited' = rs.edited
                /\ lpips_model' = lpips_model
                /\ delta_e' = [shape |-> df.shape, data |-> df.data]
                /\ visited' = [i \in DOMAIN df.data |-> 0]
                /\ regions' = EmptyList
                /\ pc' = IF options.use_block_comparison THEN "block_stats" ELSE "pixel_scan"
                /\ UNCHANGED <<others, fn, edited_in, text, original, options, block_changed_mask,
                               block_stats, scorer, heatmap, result, error>>

(***************************************************************************)
(* _detect_pixel_based, lines 410-442.                                     *)
(***************************************************************************)
\* lines 421-431: the scan reaches the next component, fills it, keeps it if large
PixelComponent ==
    /\ pc = "pixel_scan"
    /\ LET width == delta_e.shape[2]
           height == delta_e.shape[1]
           changed_mask == ChangedMask(delta_e.data, options.color_threshold)
       IN  /\ Unvisited(changed_mask, visited) # {}
           /\ LET idx == NextStart(changed_mask, visited)
                  fill == flood_fill_pixels(changed_mask, visited, width, height,
                                            idx % width, idx \div width)
              IN  /\ visited' = fill.visited
                  /\ regions' = IF LargeEnough(Len(fill.cells), options.min_region_size)
                                THEN Append(regions,
                                        compute_region_from_pixels(fill.cells, delta_e.data, width))
                                ELSE regions
    /\ UNCHANGED <<others, fn, edited_in, text, original, edited, options, pc, delta_e, block_changed_mask,
                   block_stats, lpipsVars, result, error>>

\* lines 433-442: the scan is over; sort and return
PixelReturn ==
    /\ pc = "pixel_scan"
    /\ LET changed_mask == ChangedMask(delta_e.data, options.color_threshold)
           total_changed_pixels == CountOnes(changed_mask)
           total_pixels == delta_e.shape[1] * delta_e.shape[2]
       IN  /\ Unvisited(changed_mask, visited) = {}
           /\ regions' = SortBySignificance(regions)
           /\ result' = [returned |-> TRUE,
                         regions |-> SortBySignificance(regions),
                         total_changed_pixels |-> total_changed_pixels,
                         percent_changed |-> <<100 * total_changed_pixels, total_pixels>>,
                         image_width |-> delta_e.shape[2],
                         image_height |-> delta_e.shape[1]]
    /\ pc' = "done"
    /\ UNCHANGED <<others, fn, edited_in, text, original, edited, options, delta_e, block_changed_mask,
                   block_stats, visited, lpipsVars, error>>

(***************************************************************************)
(* _detect_block_based, lines 254-345.                                     *)
(***************************************************************************)
BlocksX == CeilDiv(delta_e.shape[2], options.block_size)
BlocksY == CeilDiv(delta_e.shape[1], options.block_size)

\* lines 257-313: the grid, the per-block stats and the changed-block mask
BlockStats ==
    /\ pc = "block_stats"
    /\ LET width == delta_e.shape[2]
           height == delta_e.shape[1]
           total_blocks == BlocksX * BlocksY
           stats == [b \in 0..(total_blocks - 1) |->
                       BlockStat(b % BlocksX, b \div BlocksX, delta_e.data,
                                 options.color_threshold, options.block_size,
                                 options.min_block_density, width, height)]
       IN  /\ block_stats' = stats
           /\ block_changed_mask' = [b \in 0..(total_blocks - 1) |->
                                        IF stats[b].changed THEN 1 ELSE 0]
           /\ visited' = [b \in 0..(total_blocks - 1) |-> 0]
    /\ pc' = "block_scan"
    /\ UNCHANGED <<others, fn, edited_in, text, original, edited, options, delta_e, lpipsVars, regions, result, error>>

\* lines 316-334: the scan reaches the next cluster, fills it, keeps it if large
BlockComponent ==
    /\ pc = "block_scan"
    /\ Unvisited(block_changed_mask, visited) # {}
    /\ LET block_idx == NextStart(block_changed_mask, visited)
           fill == flood_fill_blocks(block_changed_mask, visited, BlocksX, BlocksY,
                                     block_idx % BlocksX, block_idx \div BlocksX)
       IN  /\ visited' = fill.visited
           /\ regions' = IF LargeEnough(Len(fill.cells), options.min_block_count)
                         THEN Append(regions,
                                 compute_region_from_blocks(fill.cells, options.block_size,
                                     block_stats, BlocksX, delta_e.shape[2], delta_e.shape[1]))
                         ELSE regions
    /\ UNCHANGED <<others, fn, edited_in, text, original, edited, options, pc, delta_e, block_changed_mask,
                   block_stats, lpipsVars, result, error>>

\* lines 336-345: sort and return
BlockReturn ==
    /\ pc = "block_scan"
    /\ Unvisited(block_changed_mask, visited) = {}
    /\ LET total_changed_pixels == CountOnes(ChangedMask(delta_e.data, options.color_threshold))
           total_pixels == delta_e.shape[1] * delta_e.shape[2]
       IN  /\ regions' = SortBySignificance(regions)
           /\ result' = [returned |-> TRUE,
                         regions |-> SortBySignificance(regions),
                         total_changed_pixels |-> total_changed_pixels,
                         percent_changed |-> <<100 * total_changed_pixels, total_pixels>>,
                         image_width |-> delta_e.shape[2],
                         image_height |-> delta_e.shape[1]]
    /\ pc' = "done"
    /\ UNCHANGED <<others, fn, edited_in, text, original, edited, options, delta_e, block_changed_mask,
                   block_stats, visited, lpipsVars, error>>

\* block strategy: a uniform original, every edited picture of the same size
InitBlock ==
    \E d \in Dims : \E bg \in Backgrounds : \E e \in ImagesOf(d[1], d[2], 3) :
        \E opts \in BlockOptions :
            Idle("detect_edit_regions", UniformImage(d[1], d[2], 3, bg), e, opts)

(***************************************************************************)
(* detect_edit_regions_lpips, lines 201-326.                               *)
(***************************************************************************)
\* lines 201-223: the same prelude
LpipsEnter ==
    /\ pc = "start"
    /\ fn = "detect_edit_regions_lpips"
    /\ LET rs == ResizeEdited(original, edited)
       IN  IF rs.error # NoError THEN Raise(rs.error, edited, lpips_model)
           ELSE IF ShapeRejected(original) THEN Raise(ValidationError, rs.edited, lpips_model)
           ELSE /\ edited' = rs.edited
                /\ pc' = "lpips_heatmap"
                /\ UNCHANGED <<others, fn, edited_in, text, original, options, detVars, lpipsVars, regions, result, error>>

\* lines 227-233: compute_lpips_heatmap
LpipsHeatmap ==
    /\ pc = "lpips_heatmap"
    /\ \E hm \in {compute_lpips_heatmap(original, edited, options.patch_size, options.stride,
                                        scorer)} :
       LET model_now == IF hm.loaded THEN "loaded" ELSE lpips_model
       IN  IF hm.error # NoError THEN Raise(hm.error, edited, model_now)
           ELSE /\ heatmap' = [method |-> hm.method, positions |-> hm.positions,
                               scores |-> hm.scores, shape |-> hm.shape, data |-> hm.data]
                /\ lpips_model' = model_now
                /\ pc' = "lpips_extract"
                /\ UNCHANGED <<others, fn, edited_in, text, original, edited, options, detVars, scorer, regions,
                               result, error>>

\* lines 242-306: the mask, the contours, one region per contour that is large enough
LpipsExtract ==
    /\ pc = "lpips_extract"
    /\ regions' = ExtractRegions(heatmap.data, heatmap.shape, options.threshold, options.min_area)
    /\ pc' = "lpips_sort"
    /\ UNCHANGED <<others, fn, edited_in, text, original, edited, options, detVars, lpipsVars, result, error>>

\* lines 308-326: sort, totals, return
LpipsReturn ==
    /\ pc = "lpips_sort"
    /\ LET sorted == SortPolygons(regions)
           total_area == SeqSum([k \in 1..Len(sorted) |-> sorted[k].area])
           H == heatmap.shape[1]
           W == heatmap.shape[2]
       IN  /\ regions' = sorted
           /\ result' = [returned |-> TRUE,
                         regions |-> sorted,
                         total_changed_area |-> total_area,
                         percent_changed |-> IF H * W > 0 THEN <<100 * total_area, H * W>>
                                             ELSE <<0, 1>>,
                         image_width |-> W,
                         image_height |-> H]
    /\ pc' = "done"
    /\ UNCHANGED <<others, fn, edited_in, text, original, edited, options, detVars, lpipsVars, error>>

(***************************************************************************)
(* The caller formats the result it got.                                   *)
(***************************************************************************)
Format ==
    /\ pc = "done"
    /\ fn = "detect_edit_regions"
    /\ text' = format_edit_regions_for_prompt(result)
    /\ pc' = "formatted"
    /\ UNCHANGED <<others, fn, edited_in, original, edited, options, detVars, lpipsVars, regions,
                   result, error>>

LpipsFormat ==
    /\ pc = "done"
    /\ fn = "detect_edit_regions_lpips"
    /\ text' = format_edit_regions_for_prompt_lpips(result)
    /\ pc' = "formatted"
    /\ UNCHANGED <<others, fn, edited_in, original, edited, options, detVars, lpipsVars, regions,
                   result, error>>

(***************************************************************************)
(* Inputs of the perceptual pipeline: a uniform white original of one of   *)
(* the sizes below (height, width), and an edited picture in which at most *)
(* MaxEdits tiles were repainted blue or yellow.                           *)
(***************************************************************************)
LpipsDims == {<<32, 32>>, <<32, 96>>, <<64, 64>>, <<64, 128>>, <<64, 160>>, <<96, 96>>}

TiledImage(h, w, ch, d) == [shape |-> <<h, w, ch>>, px |-> TilePx, data |-> d]

Repaints(n) ==
    UNION {[T -> {"blue", "yellow"}] : T \in {U \in SUBSET (0..(n - 1)) : Cardinality(U) <= MaxEdits}}

EditedTiles(h, w) ==
    LET n == (h \div TilePx) * (w \div TilePx)
    IN  {TiledImage(h, w, 3, [t \in 0..(n - 1) |-> IF t \in DOMAIN r THEN r[t] ELSE "white"]) :
            r \in Repaints(n)}

InitLpips ==
    \E d \in LpipsDims : \E e \in EditedTiles(d[1], d[2]) : \E opts \in LpipsOptions :
        Idle("detect_edit_regions_lpips",
             TiledImage(d[1], d[2], 3, [t \in 0..((d[1] \div TilePx) * (d[2] \div TilePx) - 1) |-> "white"]),
             e, opts)

(***************************************************************************)
(* Inputs of every shape.  Nothing in the signature of either entry point  *)
(* restricts the arrays a caller passes: kind 0 is a 2-D array (H, W),     *)
(* kind c > 0 an array (H, W, c).  The two arrays may differ in size and   *)
(* in kind.                                                                *)
(***************************************************************************)
ShapeKinds == {0, 2, 3, 4, 5}
ShapeOf(h, w, kind) == IF kind = 0 THEN <<h, w>> ELSE <<h, w, kind>>

ShapeDims == {d \in Dims : d[1] <= 2}

ShapeOptions ==
    {[DefaultOptions EXCEPT !.use_block_comparison = FALSE, !.min_region_size = 1],
     [DefaultOptions EXCEPT !.block_size = 1, !.min_block_count = 1]}

\* a white original, an edited picture in white and blue
InitShapes ==
    \E d \in ShapeDims : \E e \in ShapeDims : \E ko \in ShapeKinds : \E ke \in ShapeKinds :
        \E data \in [0..(e[1] * e[2] - 1) -> {"white", "blue"}] : \E opts \in ShapeOptions :
            Idle("detect_edit_regions",
                 [shape |-> ShapeOf(d[1], d[2], ko), px |-> 1,
                  data |-> [i \in 0..(d[1] * d[2] - 1) |-> "white"]],
                 [shape |-> ShapeOf(e[1], e[2], ke), px |-> 1, data |-> data],
                 opts)

LpipsShapeDims == {<<32, 32>>, <<64, 64>>, <<64, 160>>}

\* a white original, an edited picture of one colour
InitLpipsShapes ==
    \E d \in LpipsShapeDims : \E e \in LpipsShapeDims : \E ko \in ShapeKinds :
        \E ke \in ShapeKinds : \E c \in Palette :
            Idle("detect_edit_regions_lpips",
                 [shape |-> ShapeOf(d[1], d[2], ko), px |-> TilePx,
                  data |-> [t \in 0..((d[1] \div TilePx) * (d[2] \div TilePx) - 1) |-> "white"]],
                 [shape |-> ShapeOf(e[1], e[2], ke), px |-> TilePx,
                  data |-> [t \in 0..((e[1] \div TilePx) * (e[2] \div TilePx) - 1) |-> c]],
                 DefaultLpipsOptions)

(***************************************************************************)
(* A process calls the engine several times in a row.  The arguments, the  *)
(* returned value and the raised exception belong to the caller; the       *)
(* locals of the finished call are garbage the next call must not read;    *)
(* the module-level handle _lpips_model and the scorer stay.               *)
(***************************************************************************)
\* what the caller of the finished call holds
Outcome == [result |-> result, text |-> text, error |-> error]
FinishedCall ==
    [fn |-> fn, original |-> original, edited |-> edited_in, options |-> options,
     outcome |-> Outcome]

CallImages ==
    {[original |-> UniformImage(1, 2, 3, "white"), edited |-> e] :
        e \in {[shape |-> <<1, 2, 3>>, px |-> 1, data |-> d] :
                d \in [0..1 -> {"white", "blue"}]}}

LpipsCallImages ==
    {[original |-> TiledImage(64, 64, 3, [t \in 0..3 |-> "white"]),
      edited |-> TiledImage(64, 64, 3, [t \in 0..3 |-> c])] : c \in {"white", "blue"}}

\* (fn, images, options) of one call
CallInputs ==
    ({"detect_edit_regions"} \X CallImages \X ShapeOptions)
        \cup ({"detect_edit_regions_lpips"} \X LpipsCallImages \X {DefaultLpipsOptions})

InitCalls ==
    \E c \in CallInputs : IdleScored(c[1], c[2].original, c[2].edited, c[3], {SetMax(Gains)})

NewCall ==
    /\ pc \in {"formatted", "raised"}
    /\ calls < MaxCalls
    /\ \E c \in CallInputs :
           /\ fn' = c[1]
           /\ original' = c[2].original
           /\ edited_in' = c[2].edited
           /\ edited' = c[2].edited
           /\ options' = c[3]
    /\ pc' = "start"
    /\ result' = NoResult
    /\ text' = NoText
    /\ error' = NoError
    /\ calls' = calls + 1
    /\ history' = history \cup {FinishedCall}
    /\ UNCHANGED <<detVars, lpipsVars, regions, threadVars, flowVars, flood, interp>>

(***************************************************************************)
(* Threads inside compute_lpips_heatmap (self_check_node hands every       *)
(* detection to asyncio.to_thread, so concurrent requests run it on        *)
(* several pool threads).  _get_lpips_model, lines 31-40, takes no lock;   *)
(* a thread switch can fall between any two of its statements.             *)
(***************************************************************************)
\* the k-th instance lpips.LPIPS(...) creates
Instance(k) == <<"LPIPS#1", "LPIPS#2", "LPIPS#3", "LPIPS#4", "LPIPS#5">>[k]

engineVars ==
    <<fn, original, edited_in, edited, options, pc, detVars, scorer, heatmap, regions,
      result, text, error, callVars, flowVars, flood, interp>>

\* line 124: loss_fn = _get_lpips_model()
ThreadCall(t) ==
    /\ thread_pc[t] = "idle"
    /\ thread_pc' = [thread_pc EXCEPT ![t] = "test"]
    /\ UNCHANGED <<engineVars, lpips_model, thread_new, loss_fn, constructions>>

\* line 34: if _lpips_model is None
ThreadTest(t) ==
    /\ thread_pc[t] = "test"
    /\ thread_pc' = [thread_pc EXCEPT ![t] = IF lpips_model = "None" THEN "construct"
                                             ELSE "return"]
    /\ UNCHANGED <<engineVars, lpips_model, thread_new, loss_fn, constructions>>

\* lines 35-38, right-hand side: lpips.LPIPS(net="alex", verbose=False)
ThreadConstruct(t) ==
    /\ thread_pc[t] = "construct"
    /\ constructions' = constructions + 1
    /\ thread_new' = [thread_new EXCEPT ![t] = Instance(constructions + 1)]
    /\ thread_pc' = [thread_pc EXCEPT ![t] = "assign"]
    /\ UNCHANGED <<engineVars, lpips_model, loss_fn>>

\* line 38, the store: _lpips_model = ...
ThreadAssign(t) ==
    /\ thread_pc[t] = "assign"
    /\ lpips_model' = thread_new[t]
    /\ thread_pc' = [thread_pc EXCEPT ![t] = "return"]
    /\ UNCHANGED <<engineVars, thread_new, loss_fn, constructions>>

\* line 40: return _lpips_model
ThreadReturn(t) ==
    /\ thread_pc[t] = "return"
    /\ loss_fn' = [loss_fn EXCEPT ![t] = lpips_model]
    /\ thread_pc' = [thread_pc EXCEPT ![t] = "scoring"]
    /\ UNCHANGED <<engineVars, lpips_model, thread_new, constructions>>

\* lines 126-173: the patches are scored with loss_fn, the heatmap returned
ThreadFinish(t) ==
    /\ thread_pc[t] = "scoring"
    /\ thread_pc' = [thread_pc EXCEPT ![t] = "done"]
    /\ UNCHANGED <<engineVars, lpips_model, thread_new, loss_fn, constructions>>

InitThreads ==
    \E c \in LpipsCallImages :
        IdleScored("compute_lpips_heatmap", c.original, c.edited, DefaultLpipsOptions, Gains)

NextThreads ==
    \E t \in Threads :
        \/ ThreadCall(t)
        \/ ThreadTest(t)
        \/ ThreadConstruct(t)
        \/ ThreadAssign(t)
        \/ ThreadReturn(t)
        \/ ThreadFinish(t)

SpecThreads == InitThreads /\ [][NextThreads]_vars

(***************************************************************************)
(* The agentic edit graph (graphs/agentic_edit.py): planning, generate,    *)
(* self_check, should_continue.  The nodes are coroutines on the server's  *)
(* event loop; a coroutine gives the loop back at every await.  The        *)
(* detector call of self_check_node is handed to asyncio.to_thread.        *)
(***************************************************************************)
\* what client.generate_image can hand back: a picture, or bytes no decoder reads
GeneratedImages ==
    {[url |-> "data", decodes |-> TRUE, array |-> TiledImage(64, 64, 3, [t \in 0..3 |-> c])] :
        c \in {"white", "blue"}}
    \cup {[url |-> "data", decodes |-> TRUE,
           array |-> TiledImage(32, 32, 3, [t \in 0..0 |-> "blue"])],
          [url |-> "data", decodes |-> FALSE, array |-> NoField]}

SourceImages ==
    {[url |-> "data", decodes |-> TRUE,
      array |-> TiledImage(d[1], d[2], 3,
                           [t \in 0..((d[1] \div TilePx) * (d[2] \div TilePx) - 1) |-> "white"])] :
        d \in {<<64, 64>>, <<64, 160>>}}

\* lines 611-616
SelfCheckLpipsOptions ==
    [threshold |-> 10, min_area |-> 100, patch_size |-> 64, stride |-> 32,
     morphology_kernel_size |-> 5]

\* mutant: detect_edit_regions_lpips(...) called directly in the coroutine
OnEventLoop == "loop"

\* line 618: await asyncio.to_thread(detect_edit_regions_lpips, ...)
DetectorThread == "worker"

\* mutant: the text is built for an empty result as well
AnyResult(res) == TRUE

\* line 648: if edit_result.regions
HasRegions(res) == res.regions # <<>>

workflowEngineVars ==
    <<fn, original, edited_in, edited, options, pc, detVars, lpipsVars, regions, result, text,
      error, callVars, threadVars, flood, interp>>

\* the event loop thread is free whenever no synchronous call occupies it
LoopIsFree == detector_thread # "loop"

DetectionInProgress ==
    detector_thread # "none" /\ pc \notin {"done", "raised"}

\* planning_node, lines 381-467
Planning ==
    /\ LoopIsFree
    /\ node = "planning"
    /\ node' = "generate"
    /\ UNCHANGED <<workflowEngineVars, check_pc, source_image, max_iterations, current_iteration,
                   current_result, satisfied, edit_regions_text, prompt, detector_calls,
                   detector_thread, served>>

\* generate_node, lines 472-553: a new picture, or the failure branch
Generate ==
    /\ LoopIsFree
    /\ node = "generate"
    /\ current_iteration' = current_iteration + 1
    /\ \/ \E img \in GeneratedImages : current_result' = img
       \/ UNCHANGED current_result
    /\ node' = "self_check"
    /\ UNCHANGED <<workflowEngineVars, check_pc, source_image, max_iterations, satisfied,
                   edit_regions_text, prompt, detector_calls, detector_thread, served>>

\* self_check_node, lines 570-584: the last iteration is not evaluated
SelfCheckSkip ==
    /\ LoopIsFree
    /\ node = "self_check" /\ check_pc = "none"
    /\ current_iteration >= max_iterations
    /\ satisfied' = TRUE
    /\ detector_calls' = 0
    /\ prompt' = NoPrompt
    /\ edit_regions_text' = NoText
    /\ node' = "should_continue"
    /\ UNCHANGED <<workflowEngineVars, check_pc, source_image, max_iterations, current_iteration,
                   current_result, detector_thread, served>>

\* self_check_node, lines 586-591
SelfCheckNoResult ==
    /\ LoopIsFree
    /\ node = "self_check" /\ check_pc = "none"
    /\ current_iteration < max_iterations
    /\ current_result.url = "None"
    /\ satisfied' = FALSE
    /\ detector_calls' = 0
    /\ prompt' = NoPrompt
    /\ edit_regions_text' = NoText
    /\ node' = "should_continue"
    /\ UNCHANGED <<workflowEngineVars, check_pc, source_image, max_iterations, current_iteration,
                   current_result, detector_thread, served>>

\* lines 656-675: build_evaluation_prompt, then await client.evaluate
BuildPrompt(regions_text) ==
    /\ prompt' = [built |-> TRUE, edit_regions_text |-> regions_text]
    /\ check_pc' = "evaluate"

\* self_check_node, lines 593-623: up to the await of the detector; bytes that
\* do not decode take the inner except and the coroutine goes on to the
\* await of client.evaluate
SelfCheckDetect ==
    /\ LoopIsFree
    /\ node = "self_check" /\ check_pc = "none"
    /\ current_iteration < max_iterations
    /\ current_result.url # "None"
    /\ edit_regions_text' = NoText
    /\ IF source_image.decodes /\ current_result.decodes
       THEN /\ fn' = "detect_edit_regions_lpips"
            /\ original' = source_image.array
            /\ edited_in' = current_result.array
            /\ edited' = current_result.array
            /\ options' = SelfCheckLpipsOptions
            /\ pc' = "start"
            /\ result' = NoResult
            /\ error' = NoError
            /\ detector_calls' = 1
            /\ detector_thread' = DetectorThread
            /\ check_pc' = "detect"
            /\ prompt' = NoPrompt
       ELSE /\ detector_calls' = 0
            /\ BuildPrompt(NoText)
            /\ UNCHANGED <<fn, original, edited_in, edited, options, pc, result, error,
                           detector_thread>>
    /\ UNCHANGED <<detVars, lpipsVars, regions, text, callVars, threadVars, node, source_image,
                   max_iterations, current_iteration, current_result, satisfied, served,
                   flood, interp>>

\* self_check_node, lines 625-675: the detector is back (its result, or the
\* exception the inner except swallows); the text, the prompt, the await of
\* client.evaluate
SelfCheckPrompt ==
    /\ node = "self_check" /\ check_pc = "detect"
    /\ pc \in {"done", "raised"}
    /\ detector_thread' = "none"
    /\ \E regions_text \in {IF pc = "done" /\ HasRegions(result)
                            THEN format_edit_regions_for_prompt_lpips(result)
                            ELSE NoText} :
           /\ edit_regions_text' = regions_text
           /\ BuildPrompt(regions_text)
    /\ UNCHANGED <<workflowEngineVars, node, source_image, max_iterations, current_iteration,
                   current_result, satisfied, detector_calls, served>>

\* self_check_node, lines 677-714: the reviewer's verdict, or the outer except
SelfCheckEvaluated ==
    /\ LoopIsFree
    /\ node = "self_check" /\ check_pc = "evaluate"
    /\ \E verdict \in {"satisfied", "revise", "error"} :
           satisfied' = (verdict # "revise")
    /\ check_pc' = "none"
    /\ node' = "should_continue"
    /\ UNCHANGED <<workflowEngineVars, source_image, max_iterations, current_iteration,
                   current_result, edit_regions_text, prompt, detector_calls, detector_thread,
                   served>>

\* should_continue, lines 722-730
ShouldContinue ==
    /\ LoopIsFree
    /\ node = "should_continue"
    /\ node' = IF satisfied THEN "end"
               ELSE IF current_iteration >= max_iterations THEN "end"
               ELSE IF current_result.url = "None" /\ current_iteration > 0 THEN "end"
               ELSE "generate"
    /\ UNCHANGED <<workflowEngineVars, check_pc, source_image, max_iterations, current_iteration,
                   current_result, satisfied, edit_regions_text, prompt, detector_calls,
                   detector_thread, served>>

\* the event loop runs another handler (a health check, another request)
\* while this workflow is suspended
ServeOther ==
    /\ LoopIsFree
    /\ served' = served \cup {IF DetectionInProgress THEN pc ELSE "suspended"}
    /\ UNCHANGED <<workflowEngineVars, node, check_pc, source_image, max_iterations,
                   current_iteration, current_result, satisfied, edit_regions_text, prompt,
                   detector_calls, detector_thread>>

InitWorkflow ==
    \E src \in SourceImages : \E max \in 1..MaxIterations :
        /\ IdleEngine("none", src.array, src.array, SelfCheckLpipsOptions, Gains)
        /\ NewGraphState(src, max)
        /\ flood = NoScan
        /\ interp = NoInterp

NextWorkflow ==
    \/ Planning
    \/ Generate
    \/ SelfCheckSkip
    \/ SelfCheckNoResult
    \/ SelfCheckDetect
    \/ LpipsEnter
    \/ LpipsHeatmap
    \/ LpipsExtract
    \/ LpipsReturn
    \/ SelfCheckPrompt
    \/ SelfCheckEvaluated
    \/ ShouldContinue
    \/ ServeOther

SpecWorkflow == InitWorkflow /\ [][NextWorkflow]_vars

(***************************************************************************)
(* The component scan of one detection call, with the flood fill taken one *)
(* iteration of its while loop at a time (_detect_pixel_based lines        *)
(* 417-431, _detect_block_based lines 315-334; _flood_fill_pixels and      *)
(* _flood_fill_blocks are the same loop on a width x height grid).         *)
(* flood.marks counts, per cell, how often the loop body marked it.        *)
(***************************************************************************)
FloodEngineVars ==
    <<fn, original, edited_in, edited, options, pc, detVars, scorer, heatmap, regions,
      result, text, error, callVars, flowVars, lpips_model, threadVars, interp>>

ScanGrids == {[width |-> d[2], height |-> d[1]] : d \in Dims}

\* the scan is at a changed, unvisited cell and calls the flood fill:
\* stack = [(start_x, start_y)], the component empty
ScanCallsFloodFill ==
    /\ flood.state = "scan"
    /\ Unvisited(flood.changed_mask, flood.visited) # {}
    /\ LET idx == NextStart(flood.changed_mask, flood.visited)
       IN  flood' = [flood EXCEPT !.state = "fill",
                                  !.stack = <<<<idx % flood.width, idx \div flood.width>>>>,
                                  !.cells = <<>>]
    /\ UNCHANGED FloodEngineVars

\* one iteration of `while stack:`
FloodIteration ==
    /\ flood.state = "fill"
    /\ flood.stack # <<>>
    /\ LET s == FloodStep(flood.changed_mask, flood.width, flood.height,
                          [stack |-> flood.stack, visited |-> flood.visited,
                           cells |-> flood.cells])
           marked == IF Len(s.cells) > Len(flood.cells)
                     THEN {Idx(s.cells[Len(s.cells)][1], s.cells[Len(s.cells)][2], flood.width)}
                     ELSE {}
       IN  flood' = [flood EXCEPT !.stack = s.stack,
                                  !.visited = s.visited,
                                  !.cells = s.cells,
                                  !.marks = [i \in DOMAIN flood.marks |->
                                                IF i \in marked THEN flood.marks[i] + 1
                                                ELSE flood.marks[i]],
                                  !.iterations = flood.iterations + 1]
    /\ UNCHANGED FloodEngineVars

\* the stack is empty: the flood fill returns its component to the scan
FloodReturns ==
    /\ flood.state = "fill"
    /\ flood.stack = <<>>
    /\ flood' = [flood EXCEPT !.state = "scan",
                              !.components = Append(flood.components, flood.cells),
                              !.iterations = 0]
    /\ UNCHANGED FloodEngineVars

\* the scan has passed the last cell
ScanEnds ==
    /\ flood.state = "scan"
    /\ Unvisited(flood.changed_mask, flood.visited) = {}
    /\ flood' = [flood EXCEPT !.state = "finished"]
    /\ UNCHANGED FloodEngineVars

InitFlood ==
    /\ \E g \in ScanGrids :
       \E mask \in [0..(g.width * g.height - 1) -> {0, 1}] :
           flood = [state |-> "scan", width |-> g.width, height |-> g.height,
                    changed_mask |-> mask,
                    visited |-> [i \in 0..(g.width * g.height - 1) |-> 0],
                    marks |-> [i \in 0..(g.width * g.height - 1) |-> 0],
                    stack |-> <<>>, cells |-> <<>>, components |-> <<>>, iterations |-> 0]
    /\ IdleEngine("none", UniformImage(1, 1, 3, "white"), UniformImage(1, 1, 3, "white"),
                  DefaultOptions, {SetMin(Gains)})
    /\ NewGraphState([url |-> "data", decodes |-> TRUE,
                      array |-> UniformImage(1, 1, 3, "white")], MAX_ITERATIONS)
    /\ interp = NoInterp

NextFlood == ScanCallsFloodFill \/ FloodIteration \/ FloodReturns \/ ScanEnds

SpecFlood == InitFlood /\ [][NextFlood]_vars

\* the interpreter keeps running the loop
SpecFloodFair == SpecFlood /\ WF_vars(NextFlood)

(***************************************************************************)
(* The last lines of compute_lpips_heatmap, 160-173, on floating-point     *)
(* values.  np.full(..., dtype=np.float32) holds float32 values; griddata  *)
(* returns float64 values.  np.nan_to_num(heatmap, nan=0.0) maps NaN to 0  *)
(* and, posinf and neginf being left at their defaults, +inf and -inf to   *)
(* the largest and the most negative finite value of the array's type;     *)
(* astype(np.float32) overflows to an infinity what float32 cannot hold.   *)
(* A value is named by its class.                                          *)
(***************************************************************************)
FloatValues == {"nan", "+inf", "-inf", "0.0", "0.5", "1e300", "-1e300"}
NonFinite == {"nan", "+inf", "-inf"}

\* astype(np.float32), also the cast np.full(..., dtype=np.float32) makes
AsFloat32(v) ==
    IF v \in {"1e300", "max64"} THEN "+inf"
    ELSE IF v \in {"-1e300", "-max64"} THEN "-inf"
    ELSE v

\* np.nan_to_num(heatmap, nan=0.0) on one value of an array of type dtype
NanToNum(v, dtype) ==
    IF v = "nan" THEN "0.0"
    ELSE IF v = "+inf" THEN (IF dtype = "float32" THEN "max32" ELSE "max64")
    ELSE IF v = "-inf" THEN (IF dtype = "float32" THEN "-max32" ELSE "-max64")
    ELSE v

\* lines 160-168: what the interpolation hands on, from the values it computed
Interpolated(method, raw) ==
    IF method = "full" THEN [i \in DOMAIN raw |-> AsFloat32(raw[1])] ELSE raw

InterpDtype(method) == IF method = "full" THEN "float32" ELSE "float64"

\* lines 170-173: heatmap = np.nan_to_num(heatmap, nan=0.0); return heatmap.astype(np.float32)
Sanitize ==
    /\ interp.stage = "interpolated"
    /\ interp' = [interp EXCEPT
                     !.stage = "returned",
                     !.heatmap = [i \in DOMAIN interp.heatmap |->
                                     AsFloat32(NanToNum(interp.heatmap[i],
                                                        InterpDtype(interp.method)))]]
    /\ UNCHANGED <<fn, original, edited_in, edited, options, pc, detVars, lpipsVars, regions,
                   result, text, error, callVars, threadVars, flowVars, flood>>

InitSanitize ==
    /\ \E method \in {"full", "nearest", "cubic"} :
       \E n \in 1..MaxCells :
       \E raw \in [1..n -> FloatValues] :
           interp = [stage |-> "interpolated", method |-> method,
                     interpolated |-> Interpolated(method, raw),
                     heatmap |-> Interpolated(method, raw)]
    /\ IdleEngine("none", UniformImage(1, 1, 3, "white"), UniformImage(1, 1, 3, "white"),
                  DefaultOptions, {SetMin(Gains)})
    /\ NewGraphState([url |-> "data", decodes |-> TRUE,
                      array |-> UniformImage(1, 1, 3, "white")], MAX_ITERATIONS)
    /\ flood = NoScan

NextSanitize == Sanitize

SpecSanitize == InitSanitize /\ [][NextSanitize]_vars

(***************************************************************************)
(* Specifications: one per strategy, and the whole engine.                 *)
(***************************************************************************)
NextLpips == LpipsEnter \/ LpipsHeatmap \/ LpipsExtract \/ LpipsReturn
SpecLpips == InitLpips /\ [][NextLpips]_vars

NextPixel == Enter \/ PixelComponent \/ PixelReturn
NextBlock == Enter \/ BlockStats \/ BlockComponent \/ BlockReturn
NextDet == Enter \/ PixelComponent \/ PixelReturn \/ BlockStats \/ BlockComponent \/ BlockReturn

SpecPixel == InitPixel /\ [][NextPixel]_vars
SpecBlock == InitBlock /\ [][NextBlock]_vars
SpecDet == (InitPixel \/ InitBlock) /\ [][NextDet]_vars

Next ==
    \/ Enter
    \/ PixelComponent
    \/ PixelReturn
    \/ BlockStats
    \/ BlockComponent
    \/ BlockReturn
    \/ LpipsEnter
    \/ LpipsHeatmap
    \/ LpipsExtract
    \/ LpipsReturn
    \/ Format
    \/ LpipsFormat

NextCalls == Next \/ NewCall
SpecCalls == InitCalls /\ [][NextCalls]_vars

SpecShapes == (InitShapes \/ InitLpipsShapes) /\ [][Next]_vars
Init == InitPixel \/ InitBlock \/ InitLpips \/ InitShapes \/ InitLpipsShapes
Spec == Init /\ [][Next]_vars

(***************************************************************************)
(* Vocabulary of the properties.                                           *)
(***************************************************************************)
IsPixelCall == fn = "detect_edit_regions" /\ ~options.use_block_comparison
IsBlockCall == fn = "detect_edit_regions" /\ options.use_block_comparison
Returned == pc \in {"done", "formatted"} /\ result.returned

Coord(i, width) == <<i % width, i \div width>>

\* the pixels whose difference exceeds color_threshold, as (x, y)
ChangedPixels ==
    IF delta_e = NoField THEN {}
    ELSE {Coord(i, delta_e.shape[2]) :
            i \in {j \in DOMAIN delta_e.data : delta_e.data[j] > options.color_threshold}}

\* the changed blocks, as (bx, by)
ChangedBlocks ==
    {Coord(b, BlocksX) : b \in {j \in DOMAIN block_changed_mask : block_changed_mask[j] = 1}}

Abs(n) == IF n < 0 THEN -n ELSE n
Adjacent4(p, q) == Abs(p[1] - q[1]) + Abs(p[2] - q[2]) = 1

\* the cells of S joined to the cells of `front` by up/down/left/right steps in S
RECURSIVE Reach(_, _)
Reach(front, S) ==
    LET next == front \cup {q \in S : \E p \in front : Adjacent4(p, q)}
    IN  IF next = front THEN front ELSE Reach(next, S)

Component(p, S) == Reach({p}, S)

\* the row-major position at which the scan meets a set of cells first
FirstIndex(cells, width) == SetMin({Idx(c[1], c[2], width) : c \in cells})
GridWidth == IF options.use_block_comparison THEN BlocksX ELSE delta_e.shape[2]

IsRectangle(S) ==
    /\ S # {}
    /\ LET xs == {c[1] : c \in S}
           ys == {c[2] : c \in S}
       IN  S = (SetMin(xs)..SetMax(xs)) \X (SetMin(ys)..SetMax(ys))

\* the edited image as passed is the original
IdenticalInputs == edited_in = original
\* the two arguments differ in height or width
DimensionsDiffer == Prefix2(original.shape) # Prefix2(edited_in.shape)
IsLpipsCall == fn = "detect_edit_regions_lpips"

\* a region's significance as a rational: an integer for the Delta-E
\* detector, mean * 100 for the perceptual pipeline
SignificanceOf(r) ==
    IF IsLpipsCall THEN r.significance ELSE [num |-> r.significance, den |-> 1]
RatLeq(a, b) == a.num * b.den <= b.num * a.den

(***************************************************************************)
(* C1.  Every region of detect_edit_regions (pixel or block strategy), in  *)
(* the local list and in the returned result, has an integer significance  *)
(* with 0 <= significance <= 100, whatever its area, average difference    *)
(* (averages above 100 included) and pixel count.                          *)
(***************************************************************************)
C1_SignificanceInRange ==
    fn = "detect_edit_regions" =>
        /\ \A i \in 1..Len(regions) :
               regions[i].significance \in Int
                   /\ 0 <= regions[i].significance /\ regions[i].significance <= 100
        /\ Returned =>
               \A i \in 1..Len(result.regions) :
                   result.regions[i].significance \in Int
                       /\ 0 <= result.regions[i].significance
                       /\ result.regions[i].significance <= 100

\* a returned region whose average difference is above 200 (blue against
\* yellow): 0.4 * avg + 20 is above 100 before the clamp
C1_Witness ==
    /\ Returned /\ fn = "detect_edit_regions"
    /\ \E i \in 1..Len(result.regions) :
           /\ result.regions[i].avg_color_diff > 2000
           /\ result.regions[i].significance = 100

(***************************************************************************)
(* C2.  Every region of detect_edit_regions_lpips has                      *)
(* 0 <= significance <= 100, for every heatmap the heatmap builder can     *)
(* return.                                                                 *)
(***************************************************************************)
C2_LpipsSignificanceInRange ==
    IsLpipsCall =>
        \A i \in 1..Len(regions) :
            /\ 0 <= regions[i].significance.num
            /\ regions[i].significance.num <= 100 * regions[i].significance.den

(***************************************************************************)
(* C3.  In every returned result (pixel strategy, block strategy,          *)
(* perceptual pipeline) the regions are sorted by significance in          *)
(* non-increasing order: i < j implies                                     *)
(* regions[i].significance >= regions[j].significance.                     *)
(***************************************************************************)
C3_SortedDescending ==
    Returned =>
        \A i, j \in 1..Len(result.regions) :
            i < j => RatLeq(SignificanceOf(result.regions[j]), SignificanceOf(result.regions[i]))

\* the more significant region was discovered second: the sort moved it
C3_Witness ==
    /\ Returned /\ fn = "detect_edit_regions"
    /\ Len(result.regions) >= 2
    /\ result.regions[1].significance > result.regions[2].significance
    /\ FirstIndex(result.regions[1].members, GridWidth)
           > FirstIndex(result.regions[2].members, GridWidth)

(***************************************************************************)
(* C4.  Pixel and block strategy: two regions of one result with equal     *)
(* significance appear in discovery order, the one whose component the     *)
(* row-major scan (top row first, then left to right) meets first coming   *)
(* first.                                                                  *)
(***************************************************************************)
C4_TiesInDiscoveryOrder ==
    (Returned /\ fn = "detect_edit_regions") =>
        \A i, j \in 1..Len(result.regions) :
            (i < j /\ result.regions[i].significance = result.regions[j].significance)
                => FirstIndex(result.regions[i].members, GridWidth)
                       < FirstIndex(result.regions[j].members, GridWidth)

\* three regions: the first and the third discovered tie, the second is more
\* significant and was moved in front of both
C4_Witness ==
    /\ Returned /\ fn = "detect_edit_regions"
    /\ Len(result.regions) = 3
    /\ result.regions[1].significance > result.regions[2].significance
    /\ result.regions[2].significance = result.regions[3].significance
    /\ FirstIndex(result.regions[2].members, GridWidth)
           < FirstIndex(result.regions[1].members, GridWidth)
    /\ FirstIndex(result.regions[1].members, GridWidth)
           < FirstIndex(result.regions[3].members, GridWidth)

(***************************************************************************)
(* C5.  For two well-formed colour images whose pixel dimensions differ,   *)
(* neither detect_edit_regions nor detect_edit_regions_lpips raises, and   *)
(* the result's image_width and image_height are the original's.           *)
(***************************************************************************)
C5_DifferingDimensionsNeverRaise ==
    (WellFormed(original) /\ WellFormed(edited_in) /\ DimensionsDiffer) =>
        /\ pc # "raised"
        /\ Returned =>
               /\ result.image_width = ImgW(original)
               /\ result.image_height = ImgH(original)

(***************************************************************************)
(* C6.  When the original or the edited image is not a 3-dimensional       *)
(* array with 3 or 4 channels, the call ends in the validation ValueError  *)
(* and returns no result, whether or not the dimensions match: it never    *)
(* returns, and never raises anything else.                                *)
(***************************************************************************)
C6_MalformedShapeIsValidationError ==
    (~WellFormed(original) \/ ~WellFormed(edited_in)) =>
        /\ ~Returned
        /\ pc = "raised" => error = ValidationError

(***************************************************************************)
(* C7.  When the original and the edited image are identical, for every    *)
(* image size and every option setting, each of the pixel strategy, the    *)
(* block strategy and the perceptual pipeline returns an empty region      *)
(* list, a changed measure of 0 and percent_changed = 0.                   *)
(***************************************************************************)
C7_IdenticalImagesGiveEmptyResult ==
    (Returned /\ IdenticalInputs) =>
        /\ result.regions = <<>>
        /\ IF IsLpipsCall THEN result.total_changed_area = 0
                          ELSE result.total_changed_pixels = 0
        /\ result.percent_changed[1] = 0

(***************************************************************************)
(* C11.  For a result whose region list is empty, both formatters return   *)
(* the one fixed sentence and nothing else (no header, no region line, no  *)
(* totals), whatever the result's total, percent and dimensions are.       *)
(***************************************************************************)
C11_EmptyResultIsSentinel ==
    (pc = "formatted" /\ result.regions = <<>>) =>
        text = <<[kind |-> "fixed",
                  words |-> "DETECTED EDIT LOCATIONS: No significant changes detected between images."]>>

\* every component was filtered out, yet pixels did change: total and percent
\* are not 0
C11_Witness ==
    /\ pc = "formatted" /\ fn = "detect_edit_regions"
    /\ result.regions = <<>>
    /\ result.total_changed_pixels > 0
    /\ Len(text) = 1

Formatted == pc = "formatted" /\ Len(result.regions) >= 1
ChangedMeasure ==
    IF IsLpipsCall THEN result.total_changed_area ELSE result.total_changed_pixels
\* the corner, the opposite corner and the size of the i-th region's box
BoxOf(i) ==
    LET r == result.regions[i]
        box == IF IsLpipsCall THEN r.bounding_box ELSE <<r.x, r.y, r.width, r.height>>
    IN  [top_left |-> <<box[1], box[2]>>,
         bottom_right |-> <<box[1] + box[3] - 1, box[2] + box[4] - 1>>,
         size |-> <<box[3], box[4]>>]
HeaderAndRegionLines ==
    /\ text[1] = [kind |-> "fixed",
                  words |-> IF IsLpipsCall
                            THEN "DETECTED EDIT LOCATIONS (by perceptual difference, sorted by significance):"
                            ELSE "DETECTED EDIT LOCATIONS (sorted by significance):"]
    /\ \A i \in 1..Len(result.regions) :
           /\ text[i + 1].kind = "region"
           /\ text[i + 1].number = i
           /\ text[i + 1].top_left = BoxOf(i).top_left
           /\ text[i + 1].bottom_right = BoxOf(i).bottom_right
           /\ text[i + 1].size = BoxOf(i).size

(***************************************************************************)
(* C12 as stated.  For n >= 1 regions the text is the header line, then    *)
(* exactly n region lines numbered 1..n in the order of result.regions,    *)
(* then one trailing summary line carrying the total changed measure, the  *)
(* percent changed and the image dimensions.                               *)
(***************************************************************************)
C12_OneSummaryLine ==
    Formatted =>
        /\ Len(text) = Len(result.regions) + 2
        /\ HeaderAndRegionLines
        /\ {"total", "percent", "width", "height"} \subseteq DOMAIN text[Len(text)]

(***************************************************************************)
(* C12 amended.  For n >= 1 regions the text is the header line, then      *)
(* exactly n region lines numbered 1..n in the order of result.regions,    *)
(* then an empty line, one line with the total changed measure and the     *)
(* percent changed (one decimal), and one line with the image dimensions.  *)
(***************************************************************************)
C12_HeaderRegionsTotalsDimensions ==
    Formatted =>
        LET n == Len(result.regions)
        IN  /\ Len(text) = n + 4
            /\ HeaderAndRegionLines
            /\ text[n + 2] = [kind |-> "fixed", words |-> ""]
            /\ text[n + 3] = [kind |-> "total", total |-> ChangedMeasure,
                              percent |-> RoundHalfEven(10 * result.percent_changed[1],
                                                        result.percent_changed[2])]
            /\ text[n + 4] = [kind |-> "dimensions", width |-> ImgW(original),
                              height |-> ImgH(original)]

\* three regions, the second discovered printed first
C12_Witness ==
    /\ Formatted /\ fn = "detect_edit_regions"
    /\ Len(result.regions) = 3
    /\ Len(text) = 7
    /\ text[2].number = 1 /\ text[4].number = 3
    /\ FirstIndex(result.regions[1].members, GridWidth)
           > FirstIndex(result.regions[2].members, GridWidth)

(***************************************************************************)
(* C13.  Perceptual pipeline on well-formed images whose original is less  *)
(* than 64 pixels high or wide: the heatmap is H x W and zero everywhere,  *)
(* the region list is empty and the call does not raise, for every option  *)
(* setting.                                                                *)
(***************************************************************************)
C13_SmallImageGivesNothing ==
    (IsLpipsCall /\ WellFormed(original) /\ WellFormed(edited_in)
        /\ (ImgH(original) < 64 \/ ImgW(original) < 64)) =>
        /\ pc # "raised"
        /\ regions = <<>>
        /\ heatmap # NoHeatmap =>
               /\ heatmap.shape = <<ImgH(original), ImgW(original)>>
               /\ \A c \in DOMAIN heatmap.data : heatmap.data[c] = 0
        /\ Returned => result.regions = <<>> /\ result.total_changed_area = 0

\* a 32 x 96 original (wide enough, not high enough) against a repainted
\* picture, with threshold 0 and min_area 0
C13_Witness ==
    /\ Returned /\ IsLpipsCall
    /\ original.shape = <<32, 96, 3>>
    /\ edited_in # original
    /\ options.threshold = 0 /\ options.min_area = 0
    /\ result.regions = <<>>

(***************************************************************************)
(* C14.  detect_edit_regions followed by the formatter is deterministic    *)
(* and history-independent: any two calls of one process with equal        *)
(* images and equal options give the caller equal results and equal text,  *)
(* whatever engine calls (of either detector) came before or between.      *)
(***************************************************************************)
C14_SameInputsSameOutput ==
    LET finished == history \cup (IF pc \in {"formatted", "raised"} THEN {FinishedCall} ELSE {})
    IN  \A g, h \in finished :
            (g.fn = "detect_edit_regions" /\ h.fn = g.fn /\ h.original = g.original
                /\ h.edited = g.edited /\ h.options = g.options)
            => h.outcome = g.outcome

\* the third call repeats the first, which found a region; the call between
\* them was a perceptual one that loaded the model and found a region too
C14_Witness ==
    /\ calls = 3 /\ pc = "formatted" /\ fn = "detect_edit_regions"
    /\ Len(result.regions) = 1
    /\ lpips_model = "loaded"
    /\ heatmap # NoHeatmap
    /\ \E h \in history :
           /\ h.fn = fn /\ h.original = original /\ h.edited = edited_in
           /\ h.options = options
    /\ \E h \in history :
           h.fn = "detect_edit_regions_lpips" /\ h.outcome.result.regions # <<>>

(***************************************************************************)
(* C15.  The scoring model is constructed at most once per process: when   *)
(* several threads call compute_lpips_heatmap while the handle is unset,   *)
(* in every interleaving exactly one construction happens and all callers  *)
(* use the same handle.                                                    *)
(***************************************************************************)
C15_ConstructedOnce ==
    /\ constructions <= 1
    /\ \A t, u \in Threads :
           (loss_fn[t] # "None" /\ loss_fn[u] # "None") => loss_fn[t] = loss_fn[u]
    /\ (\A t \in Threads : thread_pc[t] = "done") => constructions = 1

(***************************************************************************)
(* C16.  The self-check step runs detect_edit_regions_lpips on a worker    *)
(* thread and only awaits its completion: while a detection is in progress *)
(* the event loop can still take other steps (serve other requests or      *)
(* health checks), the coroutine stays suspended at the await, and the     *)
(* detector never executes on the event-loop thread.                       *)
(***************************************************************************)
C16_DetectorOffEventLoop ==
    /\ detector_thread # "loop"
    /\ DetectionInProgress =>
           /\ detector_thread = "worker"
           /\ check_pc = "detect"
           /\ ENABLED ServeOther
           /\ ~ ENABLED SelfCheckPrompt

\* another request was served while the heatmap of a detection was being computed
C16_Witness ==
    /\ DetectionInProgress
    /\ pc = "lpips_extract"
    /\ {"start", "lpips_heatmap"} \subseteq served

\* self_check_node has just returned
SelfCheckReturned == node = "should_continue"

\* the self-check was entered below the iteration limit with a generated
\* picture, and both pictures decode
DetectorIsDue ==
    /\ current_iteration < max_iterations
    /\ current_result.url # "None"
    /\ source_image.decodes
    /\ current_result.decodes

(***************************************************************************)
(* C17 as stated.  Each execution of the self-check step calls the         *)
(* perceptual detector exactly once and then includes the formatter's text *)
(* for that detection result in the evaluation prompt.                     *)
(***************************************************************************)
C17_DetectorOncePerSelfCheck ==
    SelfCheckReturned =>
        /\ detector_calls = 1
        /\ prompt.built
        /\ result.returned
        /\ prompt.edit_regions_text = format_edit_regions_for_prompt_lpips(result)

(***************************************************************************)
(* C17, amended.  Each execution of the self-check step calls the          *)
(* perceptual detector at most once, and exactly once when it is entered   *)
(* below the iteration limit with a generated picture and both pictures    *)
(* decode; the evaluation prompt, when one is built, includes the          *)
(* formatter's text for that detection result when the detector returned   *)
(* at least one region, and no region text otherwise.                      *)
(***************************************************************************)
C17_DetectorAtMostOncePerSelfCheck ==
    /\ detector_calls <= 1
    /\ SelfCheckReturned => (detector_calls = 1 <=> DetectorIsDue)
    /\ prompt.built =>
           prompt.edit_regions_text =
               IF detector_calls = 1 /\ result.returned /\ result.regions # <<>>
               THEN format_edit_regions_for_prompt_lpips(result)
               ELSE NoText

\* a self-check that called the detector, got regions and put their text in the prompt
C17_Witness ==
    /\ SelfCheckReturned
    /\ detector_calls = 1
    /\ prompt.built
    /\ result.returned
    /\ result.regions # <<>>
    /\ prompt.edit_regions_text = format_edit_regions_for_prompt_lpips(result)

(***************************************************************************)
(* C18.  Pixel strategy: the significance of every returned region is      *)
(*   100 * (0.4 * min(area/10000, 1) + 0.4 * min(avg_diff/100, 1)          *)
(*          + 0.2 * (pixel_count/area))                                    *)
(* rounded to the nearest integer, with area the bounding-box area and     *)
(* avg_diff the mean difference over the member pixels; the intensity term *)
(* contributes at most 40 points.  Differences are in hundredths, so       *)
(* avg_diff/100 is total / (10000 * pixel_count).                          *)
(***************************************************************************)
C18_SignificanceFormula ==
    (IsPixelCall /\ Returned) =>
        \A i \in 1..Len(result.regions) :
            LET r == result.regions[i]
                area == r.width * r.height
                total == SumOver({Idx(p[1], p[2], delta_e.shape[2]) : p \in r.members},
                                 delta_e.data)
                capped == Min2(total, 10000 * r.pixel_count)
                num == Min2(area, 10000) * r.pixel_count * area + capped * area
                           + 5000 * r.pixel_count * r.pixel_count
                den == 250 * r.pixel_count * area
            IN  r.significance = RoundHalfEven(num, den)

\* the block statistics of a block-strategy call have been computed
GridBuilt == IsBlockCall /\ pc \in {"block_scan", "done", "formatted"}

\* the least n with n * step >= length
CellsAlong(length, step) == CHOOSE n \in 0..length : n * step >= length /\ (n - 1) * step < length

\* the pixels (row-major indices) whose coordinates fall in cell (bx, by)
PixelsOfCell(bx, by) ==
    {i \in DOMAIN delta_e.data :
        /\ (i % delta_e.shape[2]) \div options.block_size = bx
        /\ (i \div delta_e.shape[2]) \div options.block_size = by}

ExceedingIn(cell) == {i \in cell : delta_e.data[i] > options.color_threshold}

ComponentsOf(S) == {Component(p, S) : p \in S}

(***************************************************************************)
(* C20.  Minimum-size filtering is exact in both strategies: the returned  *)
(* regions are, one each, the 4-connected components of the changed pixels *)
(* that have at least min_region_size pixels (pixel strategy), or the      *)
(* 4-connected clusters of changed cells that have at least                *)
(* min_block_count cells (block strategy); no qualifying component is      *)
(* dropped and no smaller one is reported.                                 *)
(***************************************************************************)
C20_MinimumSizeFilterExact ==
    (fn = "detect_edit_regions" /\ Returned) =>
        LET reported == {result.regions[i].members : i \in 1..Len(result.regions)}
            qualifying ==
                IF options.use_block_comparison
                THEN {C \in ComponentsOf(ChangedBlocks) :
                         Cardinality(C) >= options.min_block_count}
                ELSE {C \in ComponentsOf(ChangedPixels) :
                         Cardinality(C) >= options.min_region_size}
        IN  /\ reported = qualifying
            /\ Len(result.regions) = Cardinality(qualifying)

\* block strategy: a cluster of exactly min_block_count = 2 cells is reported
\* and a single changed cell is dropped
C20_Witness ==
    /\ IsBlockCall
    /\ Returned
    /\ options.min_block_count = 2
    /\ \E i \in 1..Len(result.regions) : Cardinality(result.regions[i].members) = 2
    /\ \E C \in ComponentsOf(ChangedBlocks) : Cardinality(C) = 1

(***************************************************************************)
(* C21.  Every region returned by detect_edit_regions on a W x H image has *)
(* its bounding box inside the image: 0 <= x, 0 <= y, width >= 1,          *)
(* height >= 1, x + width <= W, y + height <= H.  In the block strategy x  *)
(* and y are multiples of block_size and the right and bottom edges are    *)
(* min((largest cell index + 1) * block_size, image edge).                 *)
(***************************************************************************)
C21_BoundingBoxInsideImage ==
    (fn = "detect_edit_regions" /\ Returned) =>
        \A i \in 1..Len(result.regions) :
            LET r == result.regions[i]
                W == delta_e.shape[2]
                H == delta_e.shape[1]
                bs == options.block_size
            IN  /\ 0 <= r.x /\ 0 <= r.y
                /\ r.width >= 1 /\ r.height >= 1
                /\ r.x + r.width <= W
                /\ r.y + r.height <= H
                /\ options.use_block_comparison =>
                       /\ r.x % bs = 0 /\ r.y % bs = 0
                       /\ r.x + r.width =
                              Min2((SetMax({c[1] : c \in r.members}) + 1) * bs, W)
                       /\ r.y + r.height =
                              Min2((SetMax({c[2] : c \in r.members}) + 1) * bs, H)

\* a block region whose last column of cells is clipped by the right image edge
C21_Witness ==
    /\ IsBlockCall
    /\ Returned
    /\ \E i \in 1..Len(result.regions) :
           LET r == result.regions[i]
           IN  /\ (SetMax({c[1] : c \in r.members}) + 1) * options.block_size
                      > delta_e.shape[2]
               /\ r.x + r.width = delta_e.shape[2]

(***************************************************************************)
(* C22.  In both deterministic strategies total_changed_pixels is the      *)
(* number of pixels of the whole image whose difference strictly exceeds   *)
(* color_threshold, pixels of discarded components included, and           *)
(* percent_changed is 100 * total_changed_pixels / (W * H).                *)
(***************************************************************************)
C22_TotalsCountEveryChangedPixel ==
    (fn = "detect_edit_regions" /\ Returned) =>
        LET W == delta_e.shape[2]
            H == delta_e.shape[1]
        IN  /\ result.total_changed_pixels = Cardinality(ChangedPixels)
            /\ result.percent_changed[1] * (W * H)
                   = 100 * Cardinality(ChangedPixels) * result.percent_changed[2]
            /\ result.image_width = W
            /\ result.image_height = H

\* changed pixels that belong to no returned region are counted all the same
C22_Witness ==
    /\ fn = "detect_edit_regions"
    /\ Returned
    /\ result.regions = <<>>
    /\ result.total_changed_pixels > 0
    /\ result.total_changed_pixels < delta_e.shape[1] * delta_e.shape[2]

(***************************************************************************)
(* C23.  Every flood-fill call terminates: the explicit stack eventually   *)
(* becomes empty, every call of a detection's scan returns and the scan    *)
(* ends; no cell is appended to a component more than once, and each cell  *)
(* is marked visited at most once during the whole detection call.  The    *)
(* loop of one call runs at most 1 + 4 * (cells of its component) times.   *)
(***************************************************************************)
C23_FloodFillTerminates ==
    /\ [](flood.state # "none" =>
             /\ \A i \in DOMAIN flood.marks : flood.marks[i] <= 1
             /\ \A j, k \in 1..Len(flood.cells) : flood.cells[j] = flood.cells[k] => j = k
             /\ flood.iterations + Len(flood.stack) = 1 + 4 * Len(flood.cells)
                    \/ flood.state # "fill")
    /\ <>(flood.state = "finished")

\* a flood fill that went round a component of four cells and emptied its stack
C23_Witness ==
    /\ flood.state = "fill"
    /\ flood.stack = <<>>
    /\ Len(flood.cells) = 4
    /\ flood.iterations = 17

\* compute_lpips_heatmap has returned a heatmap to detect_edit_regions_lpips
HeatmapReturned ==
    IsLpipsCall /\ pc \in {"lpips_extract", "lpips_sort", "done", "formatted"}

\* the number of windows the sampling loops visit
SampleCount ==
    IF ImgH(original) < MIN_PATCH_SIZE \/ ImgW(original) < MIN_PATCH_SIZE THEN 0
    ELSE Len(SampleOrigins(ImgH(original), ImgW(original),
                           EffectivePatchSize(options.patch_size),
                           EffectiveStride(options.patch_size, options.stride)))

(***************************************************************************)
(* C24.  compute_lpips_heatmap fills the heatmap according to the number n *)
(* of patch samples only: n = 0 gives an all-zero heatmap, n = 1 a heatmap *)
(* uniformly equal to the one score, n = 2 or 3 the score of the nearest   *)
(* sample in every cell, n >= 4 cubic interpolation (0 outside the hull of *)
(* the samples); the cubic step, and its failure, occur for n >= 4 only.   *)
(***************************************************************************)
C24_MethodFromSampleCount ==
    /\ HeatmapReturned =>
           LET n == SampleCount
               cells == DOMAIN heatmap.data
               gw == heatmap.shape[2] \div HeatCell
           IN  /\ Len(heatmap.scores) = n
               /\ n = 0 => \A c \in cells : heatmap.data[c] = 0
               /\ n = 1 => \A c \in cells : heatmap.data[c] = heatmap.scores[1]
               /\ n \in {2, 3} =>
                      \A c \in cells :
                          \E k \in 1..n :
                              /\ heatmap.data[c] = heatmap.scores[k]
                              /\ \A j \in 1..n :
                                     Dist2(<<c % gw, c \div gw>>, heatmap.positions[k])
                                         <= Dist2(<<c % gw, c \div gw>>, heatmap.positions[j])
               /\ n >= 4 =>
                      /\ heatmap.method = "cubic"
                      /\ \A c \in cells :
                             ~ InsideHull(<<c % gw, c \div gw>>, heatmap.positions)
                                 => heatmap.data[c] = 0
               /\ heatmap.method = "cubic" => n >= 4
    /\ (IsLpipsCall /\ pc = "raised" /\ error = "QhullError") => SampleCount >= 4

\* three samples, nearest-neighbour: two cells of the heatmap differ
C24_Witness ==
    /\ HeatmapReturned
    /\ SampleCount = 3
    /\ \E c, d \in DOMAIN heatmap.data : heatmap.data[c] # heatmap.data[d]

(***************************************************************************)
(* C25.  Every non-finite value produced by interpolation (NaN, +infinity  *)
(* or -infinity) is replaced by 0 in the heatmap compute_lpips_heatmap     *)
(* returns: the returned heatmap holds finite values only and each         *)
(* position that was non-finite holds exactly 0.                           *)
(***************************************************************************)
C25_NonFiniteBecomesZero ==
    interp.stage = "returned" =>
        \A i \in DOMAIN interp.heatmap :
            /\ interp.heatmap[i] \notin NonFinite
            /\ interp.interpolated[i] \in NonFinite => interp.heatmap[i] = "0.0"

\* the centres of the windows of side p at offsets 0, s, 2s, ... that lie
\* fully inside the original
WindowCentres(p, s) ==
    {<<x + p \div 2, y + p \div 2>> :
        x \in {v \in 0..ImgW(original) : v % s = 0 /\ v + p <= ImgW(original)},
        y \in {v \in 0..ImgH(original) : v % s = 0 /\ v + p <= ImgH(original)}}

\* the heatmap came back from the sampling loops (the image is at or above the floor)
SampledHeatmap ==
    /\ HeatmapReturned
    /\ ImgH(original) >= MIN_PATCH_SIZE
    /\ ImgW(original) >= MIN_PATCH_SIZE

(***************************************************************************)
(* C26 as stated.  compute_lpips_heatmap samples windows whose side is     *)
(* exactly the caller's patch_size, at offsets 0, stride, 2 * stride, ...  *)
(* with exactly the caller's stride, every window fully inside the image.  *)
(***************************************************************************)
C26_CallerPatchAndStride ==
    SampledHeatmap =>
        /\ SeqToSet(heatmap.positions) = WindowCentres(options.patch_size, options.stride)
        /\ Len(heatmap.positions) =
               Cardinality(WindowCentres(options.patch_size, options.stride))

(***************************************************************************)
(* C26, amended.  The windows have side max(patch_size, 64) and lie at     *)
(* offsets 0, s, 2s, ... fully inside the image, with s = stride when      *)
(* patch_size >= 64 and s = max(stride, 32) when patch_size < 64: for      *)
(* patch_size >= 64 exactly the caller's values are used.                  *)
(***************************************************************************)
C26_PatchFloorThenCallerValues ==
    SampledHeatmap =>
        LET p == IF options.patch_size < 64 THEN 64 ELSE options.patch_size
            s == IF options.patch_size < 64 /\ options.stride < 32 THEN 32
                 ELSE options.stride
        IN  /\ SeqToSet(heatmap.positions) = WindowCentres(p, s)
            /\ Len(heatmap.positions) = Cardinality(WindowCentres(p, s))

\* a call with patch_size 32 and stride 16 that sampled the four windows of
\* side 64 at stride 32
C26_Witness ==
    /\ SampledHeatmap
    /\ options.patch_size = 32
    /\ options.stride = 16
    /\ Len(heatmap.positions) = 4

(***************************************************************************)
(* C27.  Across the engine calls of a process the scoring-model handle is  *)
(* the only module-level state that changes: it stays unset until a        *)
(* compute_lpips_heatmap call that passed the size floor sets it, and once *)
(* set no later call replaces or clears it.                                *)
(***************************************************************************)
C27_HandleSetOnceNeverReplaced ==
    [][/\ lpips_model # "None" => lpips_model' = lpips_model
       /\ lpips_model' # lpips_model =>
              \/ \E t \in Threads : thread_pc[t] = "assign"
              \/ /\ pc = "lpips_heatmap"
                 /\ ImgH(original) >= MIN_PATCH_SIZE
                 /\ ImgW(original) >= MIN_PATCH_SIZE]_vars

(***************************************************************************)
(* C28.  For every region returned by detect_edit_regions (pixel or block  *)
(* strategy, any block_size >= 1) the centre point lies inside the         *)
(* region's bounding box, hence inside the image:                          *)
(* x <= center_x <= x + width - 1 and y <= center_y <= y + height - 1.     *)
(***************************************************************************)
C28_CentreInsideBoundingBox ==
    (fn = "detect_edit_regions" /\ Returned) =>
        \A i \in 1..Len(result.regions) :
            LET r == result.regions[i]
            IN  /\ r.x <= r.center_x /\ r.center_x <= r.x + r.width - 1
                /\ r.y <= r.center_y /\ r.center_y <= r.y + r.height - 1

(***************************************************************************)
(* C29.  Whenever compute_lpips_heatmap selects cubic interpolation (4 or  *)
(* more samples) the sample centres are not all on one line: the sampling  *)
(* grid has at least 2 rows and at least 2 columns, and the cubic step     *)
(* does not fail on a degenerate point set.                                *)
(***************************************************************************)
C29_CubicNeverCollinear ==
    (IsLpipsCall /\ pc \notin {"start", "lpips_heatmap"} /\ SampleCount >= 4) =>
        LET centres == WindowCentres(EffectivePatchSize(options.patch_size),
                                     EffectiveStride(options.patch_size, options.stride))
        IN  /\ Cardinality({c[1] : c \in centres}) >= 2
            /\ Cardinality({c[2] : c \in centres}) >= 2
            /\ error # "QhullError"

(***************************************************************************)
(* C30.  For every result of detect_edit_regions, under both strategies:   *)
(* each region's pixel_count is at least 1 and at most width * height of   *)
(* its bounding box, the components behind distinct regions are disjoint,  *)
(* and the pixel_counts of all regions sum to at most                      *)
(* total_changed_pixels.                                                   *)
(***************************************************************************)
C30_PixelCountsConsistent ==
    (fn = "detect_edit_regions" /\ Returned) =>
        LET rs == result.regions
        IN  /\ \A i \in 1..Len(rs) :
                   /\ rs[i].pixel_count >= 1
                   /\ rs[i].pixel_count <= rs[i].width * rs[i].height
            /\ \A i, j \in 1..Len(rs) :
                   i # j => rs[i].members \cap rs[j].members = {}
            /\ SeqSum([i \in 1..Len(rs) |-> rs[i].pixel_count])
                   <= result.total_changed_pixels

(***************************************************************************)
(* C8.  Pixel strategy: when the changed pixels are exactly one w x h      *)
(* rectangle at (x0, y0) with w * h >= min_region_size, the result has     *)
(* exactly one region, with x = x0, y = y0, width = w, height = h and      *)
(* pixel_count = w * h.                                                    *)
(***************************************************************************)
C8_RectangleIsOneRegion ==
    (Returned /\ IsPixelCall /\ IsRectangle(ChangedPixels)
        /\ Cardinality(ChangedPixels) >= options.min_region_size)
    => LET xs == {c[1] : c \in ChangedPixels}
           ys == {c[2] : c \in ChangedPixels}
           w == SetMax(xs) - SetMin(xs) + 1
           h == SetMax(ys) - SetMin(ys) + 1
       IN  /\ Len(result.regions) = 1
           /\ result.regions[1].x = SetMin(xs)
           /\ result.regions[1].y = SetMin(ys)
           /\ result.regions[1].width = w
           /\ result.regions[1].height = h
           /\ result.regions[1].pixel_count = w * h

\* a 2 x 2 square stamped away from the origin, in an image it does not fill
C8_Witness ==
    /\ Returned /\ IsPixelCall
    /\ ChangedPixels = (1..2) \X (0..1)
    /\ delta_e.shape = <<2, 3>>
    /\ Len(result.regions) = 1
    /\ result.regions[1].pixel_count = 4

(***************************************************************************)
(* C9.  Pixel strategy never merges disconnected changes: any two members  *)
(* of one region are changed pixels joined by a path of changed pixels     *)
(* using only up/down/left/right steps.                                    *)
(***************************************************************************)
C9_NoMerge ==
    IsPixelCall =>
        \A i \in 1..Len(regions) :
            /\ regions[i].members \subseteq ChangedPixels
            /\ \A p \in regions[i].members :
                   regions[i].members \subseteq Component(p, ChangedPixels)

\* two changed pixels that touch only diagonally end in two regions
C9_Witness ==
    /\ Returned /\ IsPixelCall
    /\ Len(result.regions) = 2
    /\ \E p \in result.regions[1].members : \E q \in result.regions[2].members :
           Abs(p[1] - q[1]) = 1 /\ Abs(p[2] - q[2]) = 1

(***************************************************************************)
(* C10.  Pixel strategy never splits a connected change: a flood fill      *)
(* collects the whole maximal 4-connected set of its start pixel, so       *)
(* the visited pixels are always a union of whole components, each         *)
(* region holds all pixels of its component and its pixel_count is the     *)
(* size of the component.                                                  *)
(***************************************************************************)
C10_NoSplit ==
    (IsPixelCall /\ pc \in {"pixel_scan", "done"}) =>
        /\ \A p \in ChangedPixels :
               visited[Idx(p[1], p[2], delta_e.shape[2])] = 1
                   => \A q \in Component(p, ChangedPixels) :
                          visited[Idx(q[1], q[2], delta_e.shape[2])] = 1
        /\ \A i \in 1..Len(regions) :
               \A p \in regions[i].members :
                   /\ Component(p, ChangedPixels) \subseteq regions[i].members
                   /\ regions[i].pixel_count = Cardinality(Component(p, ChangedPixels))
        /\ pc = "done" =>
               \A p \in ChangedPixels :
                   Cardinality(Component(p, ChangedPixels)) >= options.min_region_size
                       => \E i \in 1..Len(regions) : p \in regions[i].members

\* a U-shaped component (5 pixels of a 3 x 2 image) is one region
C10_Witness ==
    /\ Returned /\ IsPixelCall
    /\ ChangedPixels = {<<0, 0>>, <<0, 1>>, <<1, 1>>, <<2, 1>>, <<2, 0>>}
    /\ Len(result.regions) = 1
    /\ result.regions[1].pixel_count = 5

====
